---- MODULE Spec2Model ----
(***************************************************************************)
(* NodeSecureScanner (elom354/NSS): the pattern matcher of utils/fileUtils, *)
(* the domain aggregators built on it and the composite scorer of the      *)
(* report generator.                                                       *)
(*                                                                         *)
(* Text is a sequence of lexemes: every lexeme is one element ("cors",     *)
(* "(", "'", " ", "\n", a digit ...), so that a file's content, a line and  *)
(* a matched text are sequences and String.prototype.includes is           *)
(* subsequence search.  A JavaScript regular expression is a syntax tree   *)
(* and is run by a backtracking matcher with JavaScript's priorities       *)
(* (leftmost start, greedy quantifiers, alternatives left to right).       *)
(***************************************************************************)
EXTENDS Integers, Sequences, FiniteSets, TLC

VARIABLES
    files,      \* the project's source files, in glob order: [path, content, readable]
    manifest,   \* package.json: Null (absent or unparsable) or Some(set of declared packages)
    rule,       \* the content pattern handed to findFilesWithPattern
    matches,    \* the list findFilesWithPattern returned
    results,    \* the results object handed to the report generator
    score,      \* the composite score computed by the report generator
    counts,     \* the counts a domain-local score is computed from
    local,      \* the domain-local scores
    cors,       \* the DomainResult of scanCORS
    rateLimit,  \* the DomainResult of scanRateLimit
    domain,     \* what the aggregator under study returned or threw
    tools,      \* how each external command of scanDependencies ends
    argv,       \* process.argv[2]: Null when the argument is missing
    exit,       \* the process exit status: Null while the process runs
    pc          \* "start" before the operation ran, "done" after

vars == <<files, manifest, rule, matches, results, score, counts, local, cors, rateLimit,
          domain, tools, argv, exit, pc>>

(***************************************************************************)
(* null and values that may be null                                        *)
(***************************************************************************)
Null == <<>>
Some(x) == <<x>>
IsNull(o) == Len(o) = 0
Val(o) == o[1]

Min(a, b) == IF a <= b THEN a ELSE b
Max(a, b) == IF a >= b THEN a ELSE b

NL == "\n"
Whitespace == {" ", NL}
Digits == {"0", "1", "2", "3", "4", "5", "6", "7", "8", "9"}

\* The value of a singleton set: binds a value once it is computed.
Only(S) == CHOOSE v \in S : TRUE

RECURSIVE FlatFrom(_, _)
FlatFrom(ss, k) == IF k > Len(ss) THEN <<>> ELSE ss[k] \o FlatFrom(ss, k + 1)
Flat(ss) == Only({FlatFrom(t, 1) : t \in {ss \o <<>>}})

(***************************************************************************)
(* Regular expressions.  A node is one of                                  *)
(*   [t |-> "set", set |-> S]        one lexeme of S                        *)
(*   [t |-> "cat", a |-> <<...>>]    concatenation                         *)
(*   [t |-> "alt", a |-> <<...>>]    alternatives, tried left to right      *)
(*   [t |-> "star", r |-> n]         n*, greedy                            *)
(*   [t |-> "opt", r |-> n]          n?, greedy                            *)
(*   [t |-> "nla", r |-> n]          (?!n)                                 *)
(*   [t |-> "cap", n |-> k, r |-> n] capture group k                       *)
(*   [t |-> "rep", set |-> S, lo |-> m, hi |-> n]  S{m,n}                  *)
(*   [t |-> "wb", set |-> W]         \b, W being the word lexemes           *)
(***************************************************************************)
Lit(x) == [t |-> "set", set |-> {x}]
OneOf(S) == [t |-> "set", set |-> S]
Cat(a) == [t |-> "cat", a |-> a]
Alt(a) == [t |-> "alt", a |-> a]
Star(n) == [t |-> "star", r |-> n]
Plus(n) == Cat(<<n, Star(n)>>)
Opt(n) == [t |-> "opt", r |-> n]
NotAhead(n) == [t |-> "nla", r |-> n]
Cap(k, n) == [t |-> "cap", n |-> k, r |-> n]
Between(S, m, n) == [t |-> "rep", set |-> S, lo |-> m, hi |-> n]
WordBoundary(W) == [t |-> "wb", set |-> W]
\* S*? 
LazyStar(S) == [t |-> "lazy", set |-> S]
\* ^ under the m flag
LineStart == [t |-> "bol"]
WS == Star(OneOf(Whitespace))

NGroups == 3
NoCaps == [k \in 1..NGroups |-> Null]

\* The length of the longest run of lexemes of S in s from index i on.
RunLength(S, s, i) ==
    CHOOSE n \in 0..(Len(s) + 1 - i) :
        /\ (i + n > Len(s) \/ s[i + n] \notin S)
        /\ \A k \in i..(i + n - 1) : s[k] \in S

\* Every way node re matches s from index i on, best first: the index after
\* the match and the capture groups set so far.  RunFrom runs the nodes
\* a[k], a[k+1], ... one after the other.
RECURSIVE Run(_, _, _, _), RunFrom(_, _, _, _, _)
Run(re, s, i, caps) ==
    CASE re.t = "set" ->
            IF i <= Len(s) /\ s[i] \in re.set
              THEN <<[e |-> i + 1, g |-> caps]>> ELSE <<>>
      [] re.t = "cat" -> RunFrom(re.a, 1, s, i, caps)
      [] re.t = "alt" ->
            Flat([j \in 1..Len(re.a) |-> Run(re.a[j], s, i, caps)])
      [] re.t = "star" /\ re.r.t = "set" ->
            \* a class repeated: the longest run first, then each shorter one
            Only({[j \in 1..(n + 1) |-> [e |-> i + n + 1 - j, g |-> caps]] \o <<>>
                  : n \in {RunLength(re.r.set, s, i)}})
      [] re.t = "star" /\ re.r.t # "set" ->
            Only({Flat([j \in 1..Len(once) |->
                         IF once[j].e > i THEN Run(re, s, once[j].e, once[j].g) ELSE <<>>])
                  \o <<[e |-> i, g |-> caps]>> : once \in {Run(re.r, s, i, caps)}})
      [] re.t = "opt" ->
            Run(re.r, s, i, caps) \o <<[e |-> i, g |-> caps]>>
      [] re.t = "nla" ->
            IF Len(Run(re.r, s, i, caps)) = 0 THEN <<[e |-> i, g |-> caps]>> ELSE <<>>
      [] re.t = "rep" ->
            \* from lo to hi lexemes of the class, the longest run first
            Only({IF n < re.lo THEN <<>>
                  ELSE [j \in 1..(n + 1 - re.lo) |-> [e |-> i + n + 1 - j, g |-> caps]] \o <<>>
                  : n \in {Min(re.hi, RunLength(re.set, s, i))}})
      [] re.t = "lazy" ->
            \* a class repeated lazily: the shortest run first
            Only({[j \in 1..(n + 1) |-> [e |-> i + j - 1, g |-> caps]] \o <<>>
                  : n \in {RunLength(re.set, s, i)}})
      [] re.t = "bol" ->
            IF i = 1 \/ s[i - 1] = NL THEN <<[e |-> i, g |-> caps]>> ELSE <<>>
      [] re.t = "wb" ->
            IF (i > 1 /\ s[i - 1] \in re.set) # (i <= Len(s) /\ s[i] \in re.set)
              THEN <<[e |-> i, g |-> caps]>> ELSE <<>>
      [] re.t = "cap" ->
            Only({[j \in 1..Len(inner) |->
                    [e |-> inner[j].e,
                     g |-> [inner[j].g EXCEPT ![re.n] = Some(SubSeq(s, i, inner[j].e - 1))]]]
                  \o <<>> : inner \in {Run(re.r, s, i, caps)}})
RunFrom(a, k, s, i, caps) ==
    IF k > Len(a) THEN <<[e |-> i, g |-> caps]>>
    ELSE IF a[k].t = "set"
      THEN \* one lexeme of a class: at most one way to go on
           IF i <= Len(s) /\ s[i] \in a[k].set THEN RunFrom(a, k + 1, s, i + 1, caps)
           ELSE <<>>
    ELSE Only({IF Len(first) = 0 THEN <<>>
               ELSE IF Len(first) = 1 THEN RunFrom(a, k + 1, s, first[1].e, first[1].g)
               ELSE Flat([j \in 1..Len(first) |->
                            RunFrom(a, k + 1, s, first[j].e, first[j].g)])
               : first \in {Run(a[k], s, i, caps)}})

\* String.prototype.match with a RegExp that has no g flag: Null, or the
\* match array: [0] the matched text, [1], [2] the captures (Null: undefined).
MatchAt(s, runs) ==
    LET starts == {i \in 1..Len(runs) : Len(runs[i]) > 0}
    IN  IF starts = {} THEN Null
        ELSE LET i == CHOOSE x \in starts : \A y \in starts : x <= y
                 m == runs[i][1]
             IN  Some([text |-> SubSeq(s, i, m.e - 1), g |-> m.g])
StringMatch(s, re) ==
    MatchAt(s, [i \in 1..(Len(s) + 1) |-> Run(re, s, i, NoCaps)] \o <<>>)

\* String.prototype.includes
Includes(s, t) ==
    \E k \in 1..(Len(s) + 1) : k + Len(t) - 1 <= Len(s) /\ SubSeq(s, k, k + Len(t) - 1) = t

\* String.prototype.split('\n')
RECURSIVE SplitLines(_)
SplitLines(s) ==
    IF \A k \in 1..Len(s) : s[k] # NL THEN <<s>>
    ELSE LET k == CHOOSE x \in 1..Len(s) : s[x] = NL /\ \A y \in 1..(x - 1) : s[y] # NL
         IN  <<SubSeq(s, 1, k - 1)>> \o SplitLines(SubSeq(s, k + 1, Len(s)))

\* String.prototype.trim
RECURSIVE Trim(_)
Trim(s) ==
    IF Len(s) = 0 THEN s
    ELSE IF s[1] \in Whitespace THEN Trim(Tail(s))
    ELSE IF s[Len(s)] \in Whitespace THEN Trim(SubSeq(s, 1, Len(s) - 1))
    ELSE s

\* Array.prototype.findIndex(line => line.includes(text)): 0-based, -1 if none.
FindIndex(lines, text) ==
    LET hits == {k \in 1..Len(lines) : Includes(lines[k], text)}
    IN  IF hits = {} THEN -1 ELSE (CHOOSE x \in hits : \A y \in hits : x <= y) - 1

(***************************************************************************)
(* utils/fileUtils                                                         *)
(***************************************************************************)
\* A reader that hands out the text of a file it could not read.
readFileContentUnguarded(f) == f.content

\* readFileContent: the text, or '' when the read fails.
readFileContent(f) == IF f.readable THEN f.content ELSE <<>>

\* A matcher that reports the 0-based index of the line.
MatchRecordZeroBased(f, lines, text, trimmed) ==
    LET lineNumber == FindIndex(lines, text)
    IN  [file    |-> f.path,
         line    |-> IF lineNumber >= 0 THEN Some(lineNumber) ELSE Null,
         context |-> IF lineNumber >= 0
                       THEN Some(IF trimmed THEN Trim(lines[lineNumber + 1])
                                 ELSE lines[lineNumber + 1])
                       ELSE Null]

\* The record pushed for one file: line is 1-based or null, context is the
\* line (trimmed for a RegExp pattern) or null.
MatchRecord(f, lines, text, trimmed) ==
    LET lineNumber == FindIndex(lines, text)
    IN  [file    |-> f.path,
         line    |-> IF lineNumber >= 0 THEN Some(lineNumber + 1) ELSE Null,
         context |-> IF lineNumber >= 0
                       THEN Some(IF trimmed THEN Trim(lines[lineNumber + 1])
                                 ELSE lines[lineNumber + 1])
                       ELSE Null]

\* A matcher that reports every occurrence: one record for each index of the
\* content at which the pattern matches.
FileMatchesEveryOccurrence(f, p) ==
    LET content == readFileContent(f)
        starts == {i \in 1..(Len(content) + 1) :
                     IF p.kind = "string"
                       THEN i + Len(p.text) - 1 <= Len(content)
                            /\ SubSeq(content, i, i + Len(p.text) - 1) = p.text
                       ELSE Len(Run(p.re, content, i, NoCaps)) > 0}
    IN  [k \in 1..Cardinality(starts) |->
           MatchRecord(f, SplitLines(content),
                       IF p.kind = "string" THEN p.text
                       ELSE Val(StringMatch(content, p.re)).text, p.kind = "regexp")]

\* What the loop body of findFilesWithPattern pushes for file f: nothing or
\* one record.  p is [kind |-> "string", text |-> ...] or
\* [kind |-> "regexp", re |-> ...].
RecordIfMatched(f, content, match) ==
    IF ~IsNull(match)
      THEN <<MatchRecord(f, SplitLines(content), Val(match).text, TRUE)>>
      ELSE <<>>
FileMatches(f, p) ==
    IF p.kind = "string"
      THEN IF Includes(readFileContent(f), p.text)
             THEN <<MatchRecord(f, SplitLines(readFileContent(f)), p.text, FALSE)>>
             ELSE <<>>
      ELSE RecordIfMatched(f, readFileContent(f), StringMatch(readFileContent(f), p.re))

\* findFilesWithPattern(projectPath, filePattern, contentPattern) over the
\* files the glob yields, in the glob's order.
findFilesWithPattern(fs, p) == Flat([k \in 1..Len(fs) |-> FileMatches(fs[k], p)])

RegExp(re) == [kind |-> "regexp", re |-> re]
Str(text) == [kind |-> "string", text |-> text]

(***************************************************************************)
(* The matcher on its own: a corpus of small files and a content pattern.  *)
(***************************************************************************)
MaxLen == 5
Paths == <<"a.js", "b.js">>
MatchAlphabet == {"a", "b", " ", NL}

RECURSIVE Texts(_, _)
Texts(A, n) ==
    IF n = 0 THEN {<<>>}
    ELSE LET shorter == Texts(A, n - 1)
         IN  shorter \cup {Append(t, x) : t \in {u \in shorter : Len(u) = n - 1}, x \in A}

\* The corpora of at most Len(Paths) files whose contents hold at most
\* budget lexemes altogether; file k has path Paths[k].
RECURSIVE Corpora(_, _, _)
Corpora(A, k, budget) ==
    {<<>>} \cup
    (IF k > Len(Paths) THEN {}
     ELSE UNION {{<<[path |-> Paths[k], content |-> c, readable |-> TRUE]>> \o rest :
                     rest \in Corpora(A, k + 1, budget - Len(c))} : c \in Texts(A, budget)})

PatternNames == {"/a/", "/a\\s*b/", "/a(?!b)/", "/b|ab/", "/\\s*a/", "'a'"}
PatternOf(name) ==
    CASE name = "/a/"       -> RegExp(Lit("a"))
      [] name = "/a\\s*b/"  -> RegExp(Cat(<<Lit("a"), WS, Lit("b")>>))
      [] name = "/a(?!b)/"  -> RegExp(Cat(<<Lit("a"), NotAhead(Lit("b"))>>))
      [] name = "/b|ab/"    -> RegExp(Alt(<<Lit("b"), Cat(<<Lit("a"), Lit("b")>>)>>))
      [] name = "/\\s*a/"   -> RegExp(Cat(<<WS, Lit("a")>>))
      [] name = "'a'"       -> Str(<<"a">>)

NoRule == "none"
NoResults == "none"
NoCounts == [domain |-> "none"]
NoDomain == [status |-> "none"]
NoTools == [snyk |-> "none"]

\* What an aggregator call ends with: the value it returns or the error it throws.
Returned(v) == [status |-> "returned", value |-> v]
Threw(e) == [status |-> "threw", error |-> e]

\* The parts of the state an operation run on its own neither reads nor writes.
RunIdle == domain = NoDomain /\ tools = NoTools /\ argv = Null /\ exit = Null
RunUnchanged == UNCHANGED <<domain, tools, argv, exit>>

InitMatch ==
    /\ files \in Corpora(MatchAlphabet, 1, MaxLen)
    /\ manifest = Null
    /\ rule \in PatternNames
    /\ matches = <<>>
    /\ results = NoResults
    /\ score = 0
    /\ counts = NoCounts
    /\ local = 0
    /\ cors = NoDomain
    /\ rateLimit = NoDomain
    /\ pc = "start"
    /\ RunIdle

\* findFilesWithPattern(projectPath, '**/*.{js,ts,jsx,tsx}', rule)
FindFilesWithPattern ==
    /\ pc = "start"
    /\ matches' = findFilesWithPattern(files, PatternOf(rule))
    /\ pc' = "done"
    /\ UNCHANGED <<files, manifest, rule, results, score, counts, local, cors, rateLimit>>
    /\ RunUnchanged

NextMatch == FindFilesWithPattern
SpecMatch == InitMatch /\ [][NextMatch]_vars

(***************************************************************************)
(* What a pattern denotes, stated without the matcher's search order:      *)
(* Denotes(re, s, i, j) iff node re matches s[i..j-1] inside s.            *)
(***************************************************************************)
RECURSIVE Denotes(_, _, _, _)
Denotes(re, s, i, j) ==
    CASE re.t = "set"  -> j = i + 1 /\ i <= Len(s) /\ s[i] \in re.set
      [] re.t = "cat"  -> IF Len(re.a) = 0 THEN i = j
                          ELSE \E k \in i..j : /\ Denotes(Head(re.a), s, i, k)
                                               /\ Denotes(Cat(Tail(re.a)), s, k, j)
      [] re.t = "alt"  -> \E n \in 1..Len(re.a) : Denotes(re.a[n], s, i, j)
      [] re.t = "star" -> i = j \/ \E k \in (i + 1)..j : /\ Denotes(re.r, s, i, k)
                                                        /\ Denotes(re, s, k, j)
      [] re.t = "opt"  -> i = j \/ Denotes(re.r, s, i, j)
      [] re.t = "nla"  -> i = j /\ ~\E k \in i..(Len(s) + 1) : Denotes(re.r, s, i, k)
      [] re.t = "cap"  -> Denotes(re.r, s, i, j)

\* The indexes of s at which an occurrence of the pattern starts.
OccurrenceStarts(s, re) ==
    {i \in 1..(Len(s) + 1) : \E j \in i..(Len(s) + 1) : Denotes(re, s, i, j)}

RecordsFor(recs, path) == {n \in 1..Len(recs) : recs[n].file = path}

\* t is l without its leading and trailing whitespace.
IsTrimOf(t, l) ==
    /\ Len(t) > 0 => t[1] \notin Whitespace /\ t[Len(t)] \notin Whitespace
    /\ \E i \in 1..(Len(l) + 1) :
          /\ i + Len(t) - 1 <= Len(l)
          /\ SubSeq(l, i, i + Len(t) - 1) = t
          /\ \A k \in 1..Len(l) : (k < i \/ k > i + Len(t) - 1) => l[k] \in Whitespace

IsRegExpRun == pc = "done" /\ PatternOf(rule).kind = "regexp"

\* C1: for a regular-expression pattern, findFilesWithPattern returns exactly
\* one record for each file of the corpus whose content holds an occurrence of
\* the pattern, however many occurrences it holds, no record for any other
\* file, and never two records for one file.
C1_OneRecordPerMatchingFile ==
    IsRegExpRun =>
      /\ \A k \in 1..Len(files) :
            Cardinality(RecordsFor(matches, files[k].path)) =
              IF OccurrenceStarts(files[k].content, PatternOf(rule).re) # {} THEN 1 ELSE 0
      /\ \A n \in 1..Len(matches) : \E k \in 1..Len(files) : matches[n].file = files[k].path

\* A file with several occurrences of the pattern beside a file with none.
C1_Witness ==
    /\ IsRegExpRun
    /\ Len(matches) = 1
    /\ \E k, m \in 1..Len(files) :
          /\ Cardinality(OccurrenceStarts(files[k].content, PatternOf(rule).re)) >= 2
          /\ OccurrenceStarts(files[m].content, PatternOf(rule).re) = {}
          /\ Len(files[m].content) > 0

\* C2: in every record returned for a regular-expression pattern, line is the
\* 1-based index of the first line that contains the matched text and context
\* is that line trimmed; both are null when no line contains the matched
\* text; line is never below 1 and is null exactly when context is null.
C2_FirstLineAndContext ==
    IsRegExpRun =>
      \A n \in 1..Len(matches) : \A k \in 1..Len(files) :
        matches[n].file = files[k].path =>
          LET r == matches[n]
              lines == SplitLines(files[k].content)
              text == Val(StringMatch(files[k].content, PatternOf(rule).re)).text
              holding == {x \in 1..Len(lines) : Includes(lines[x], text)}
          IN  /\ IsNull(r.line) <=> IsNull(r.context)
              /\ ~IsNull(r.line) => Val(r.line) >= 1
              /\ holding = {} => IsNull(r.line) /\ IsNull(r.context)
              /\ holding # {} =>
                    /\ ~IsNull(r.line) /\ ~IsNull(r.context)
                    /\ Val(r.line) \in holding
                    /\ \A y \in holding : Val(r.line) <= y
                    /\ IsTrimOf(Val(r.context), lines[Val(r.line)])

\* One record whose match spans lines (null, null) beside one whose line is
\* found and whose context is that line.
C2_Witness ==
    /\ IsRegExpRun
    /\ \E n, m \in 1..Len(matches) :
          /\ IsNull(matches[n].line) /\ IsNull(matches[n].context)
          /\ ~IsNull(matches[m].line) /\ ~IsNull(matches[m].context)

(***************************************************************************)
(* The composite scorer of the report generator.                           *)
(*                                                                         *)
(* results holds, for each domain, what calculateSecurityScore reads of it:*)
(*   vuln           dependencies.audit.vulnerabilities: the tier counts    *)
(*   secrets        secrets.secrets: how many are CRITICAL, how many HIGH  *)
(*   auth, inputValidation, sqlInjection, csrf   <domain>.total            *)
(*   corsHigh       how many of cors.issues are HIGH                       *)
(*   rateLimit      rateLimit.issues.count                                 *)
(*   middlewares    middlewares.missing.count                              *)
(* each Null when the object the guard of its section tests is missing.    *)
(* The input-validation weight is 1.5, so the running score is held in     *)
(* halves: Halves(n) is the number n.                                      *)
(***************************************************************************)
Halves(n) == 2 * n

\* (vuln.critical || 0) * 15 ... (vuln.low || 0) * 2
DependencyDeduction(r) ==
    IF ~IsNull(r.vuln)
      THEN Halves(Val(r.vuln).critical * 15 + Val(r.vuln).high * 10
                  + Val(r.vuln).moderate * 5 + Val(r.vuln).low * 2)
      ELSE 0

SecretsDeduction(r) ==
    IF ~IsNull(r.secrets)
      THEN Halves(Val(r.secrets).critical * 10 + Val(r.secrets).high * 5)
      ELSE 0

AuthDeductionUncapped(r) ==
    IF ~IsNull(r.auth) /\ Val(r.auth) # 0 THEN Halves(Val(r.auth) * 2) ELSE 0

AuthDeduction(r) ==
    IF ~IsNull(r.auth) /\ Val(r.auth) # 0
      THEN Min(Halves(20), Halves(Val(r.auth) * 2))
      ELSE 0

\* Math.min(15, total * 2)
InputValidationDeductionWeightTwo(r) ==
    IF ~IsNull(r.inputValidation) /\ Val(r.inputValidation) # 0
      THEN Min(Halves(15), Halves(Val(r.inputValidation) * 2))
      ELSE 0

\* Math.min(15, total * 1.5)
InputValidationDeduction(r) ==
    IF ~IsNull(r.inputValidation) /\ Val(r.inputValidation) # 0
      THEN Min(Halves(15), Val(r.inputValidation) * 3)
      ELSE 0

SqlInjectionDeduction(r) ==
    IF ~IsNull(r.sqlInjection) /\ Val(r.sqlInjection) # 0
      THEN Min(Halves(20), Halves(Val(r.sqlInjection) * 3))
      ELSE 0

CsrfDeduction(r) ==
    IF ~IsNull(r.csrf) /\ Val(r.csrf) # 0
      THEN Min(Halves(15), Halves(Val(r.csrf) * 2))
      ELSE 0

\* score += highCorsIssues * 5
CorsDeductionAdded(r) ==
    IF ~IsNull(r.corsHigh) THEN 0 - Halves(Val(r.corsHigh) * 5) ELSE 0

CorsDeduction(r) ==
    IF ~IsNull(r.corsHigh) THEN Halves(Val(r.corsHigh) * 5) ELSE 0

RateLimitDeduction(r) ==
    IF ~IsNull(r.rateLimit) THEN Min(Halves(10), Halves(Val(r.rateLimit))) ELSE 0

MiddlewaresDeduction(r) ==
    IF ~IsNull(r.middlewares)
      THEN Min(Halves(20), Halves(Val(r.middlewares) * 4))
      ELSE 0

\* Math.round of h halves: floor(h/2 + 0.5)
MathRound(h) == (h + 1) \div 2

\* Math.min(100, Math.round(score)) without the lower limit
LimitScoreAboveOnly(h) == Min(100, MathRound(h))

\* Math.max(0, Math.min(100, Math.round(score)))
LimitScore(h) == Max(0, Min(100, MathRound(h)))

calculateSecurityScore(r) ==
    LimitScore(Halves(100)
               - DependencyDeduction(r) - SecretsDeduction(r) - AuthDeduction(r)
               - InputValidationDeduction(r) - SqlInjectionDeduction(r)
               - CsrfDeduction(r) - CorsDeduction(r) - RateLimitDeduction(r)
               - MiddlewaresDeduction(r))

(***************************************************************************)
(* The results objects the scorer is run on: every count is 0 but those of *)
(* two places, and no domain, one domain or every domain is missing.       *)
(***************************************************************************)
MaxCount == 3
ExtremeCount == 1000
CapEdgeCounts == {7, 10, 11}
CountValues == (0..MaxCount) \cup CapEdgeCounts \cup {ExtremeCount}

Domains == {"vuln", "secrets", "auth", "inputValidation", "sqlInjection", "csrf",
            "corsHigh", "rateLimit", "middlewares"}
Places == {<<"vuln", "critical">>, <<"vuln", "high">>, <<"vuln", "moderate">>,
           <<"vuln", "low">>, <<"secrets", "critical">>, <<"secrets", "high">>}
          \cup {<<d, "total">> : d \in Domains \ {"vuln", "secrets"}}

NoFindings ==
    [vuln |-> Some([critical |-> 0, high |-> 0, moderate |-> 0, low |-> 0]),
     secrets |-> Some([critical |-> 0, high |-> 0]),
     auth |-> Some(0), inputValidation |-> Some(0), sqlInjection |-> Some(0),
     csrf |-> Some(0), corsHigh |-> Some(0), rateLimit |-> Some(0),
     middlewares |-> Some(0)]

CountAt(r, p) ==
    IF IsNull(r[p[1]]) THEN 0
    ELSE IF p[1] \in {"vuln", "secrets"} THEN Val(r[p[1]])[p[2]] ELSE Val(r[p[1]])

\* r with the count at place p set to n (r as it is when p's domain is missing)
WithCount(r, p, n) ==
    IF IsNull(r[p[1]]) THEN r
    ELSE IF p[1] \in {"vuln", "secrets"}
      THEN [r EXCEPT ![p[1]] = Some([Val(r[p[1]]) EXCEPT ![p[2]] = n])]
      ELSE [r EXCEPT ![p[1]] = Some(n)]

Without(r, ds) == [d \in Domains |-> IF d \in ds THEN Null ELSE r[d]]

MissingChoices == {{}} \cup {{d} : d \in Domains} \cup {Domains}

InitScore ==
    /\ \E p, q \in Places : \E n, m \in CountValues : \E ds \in MissingChoices :
          results = Without(WithCount(WithCount(NoFindings, p, n), q, m), ds)
    /\ files = <<>>
    /\ manifest = Null
    /\ rule = NoRule
    /\ matches = <<>>
    /\ score = 0
    /\ counts = NoCounts
    /\ local = 0
    /\ cors = NoDomain
    /\ rateLimit = NoDomain
    /\ pc = "start"
    /\ RunIdle

\* generateReport(results): const securityScore = calculateSecurityScore(results)
GenerateReport ==
    /\ pc = "start"
    /\ score' = calculateSecurityScore(results)
    /\ pc' = "done"
    /\ UNCHANGED <<files, manifest, rule, matches, results, counts, local, cors, rateLimit>>
    /\ RunUnchanged

NextScore == GenerateReport
SpecScore == InitScore /\ [][NextScore]_vars

\* C3: calculateSecurityScore returns an integer of 0..100 for every results
\* object, whatever its counts and whichever domains are missing.
C3_CompositeScoreInRange == pc = "done" => score \in 0..100

\* Counts that drive the running total far below 0: the score is 0.
C3_Witness ==
    /\ pc = "done"
    /\ score = 0
    /\ \E p \in Places : CountAt(results, p) = ExtremeCount
    /\ \E d \in Domains : IsNull(results[d])

\* C4: raising one issue count of one domain, the others unchanged, never
\* raises the composite score.
C4_CompositeScoreMonotone ==
    pc = "done" =>
      \A p \in Places : \A k \in CountValues \ {0} :
        calculateSecurityScore(WithCount(results, p, CountAt(results, p) + k)) <= score

\* A results object with findings in two domains, where one more finding
\* lowers the score.
C4_Witness ==
    /\ pc = "done"
    /\ score \in 1..99
    /\ \E p, q \in Places : p[1] # q[1] /\ CountAt(results, p) > 0 /\ CountAt(results, q) > 0
    /\ \E p \in Places :
          calculateSecurityScore(WithCount(results, p, CountAt(results, p) + 1)) < score

\* The deductions of claim C5, in halves.
C5_Deductions(r) ==
    LET n(p) == CountAt(r, p)
        t(d) == CountAt(r, <<d, "total">>)
    IN  Halves(15 * n(<<"vuln", "critical">>) + 10 * n(<<"vuln", "high">>)
               + 5 * n(<<"vuln", "moderate">>) + 2 * n(<<"vuln", "low">>)
               + 10 * n(<<"secrets", "critical">>) + 5 * n(<<"secrets", "high">>))
        + Min(Halves(20), Halves(2 * t("auth")))
        + Min(Halves(15), 3 * t("inputValidation"))
        + Min(Halves(20), Halves(3 * t("sqlInjection")))
        + Min(Halves(15), Halves(2 * t("csrf")))
        + Halves(5 * t("corsHigh"))
        + Min(Halves(10), Halves(t("rateLimit")))
        + Min(Halves(20), Halves(4 * t("middlewares")))

\* h halves rounded to the nearest integer, a half upward
C5_RoundHalfUp(h) == IF h % 2 = 0 THEN h \div 2 ELSE (h + 1) \div 2

\* C5: the composite score is round(100 - D) limited to 0..100, D the sum of
\* the weighted and capped deductions; a half is rounded upward.
C5_CompositeScoreFormula ==
    pc = "done" =>
      LET exact == C5_RoundHalfUp(Halves(100) - C5_Deductions(results))
      IN  score = IF exact < 0 THEN 0 ELSE IF exact > 100 THEN 100 ELSE exact

\* A single input-validation issue alone: 98.5, rounded to 99.
C5_Witness ==
    /\ pc = "done"
    /\ results = WithCount(NoFindings, <<"inputValidation", "total">>, 1)
    /\ score = 99

OnlyDomainWithFindings(r, d) ==
    /\ \E p \in Places : p[1] = d /\ CountAt(r, p) > 0
    /\ \A p \in Places : p[1] # d => CountAt(r, p) = 0

\* C6 as claimed: whichever domain is the only one with findings, the score
\* stays above 0.
C6_NoDomainAloneZeroesTheScore ==
    pc = "done" =>
      \A d \in Domains : OnlyDomainWithFindings(results, d) => score > 0

CappedDomains == {"auth", "inputValidation", "sqlInjection", "csrf", "rateLimit",
                  "middlewares"}
C6_CapOf(d) ==
    CASE d = "auth" -> 20 [] d = "inputValidation" -> 15 [] d = "sqlInjection" -> 20
      [] d = "csrf" -> 15 [] d = "rateLimit" -> 10 [] d = "middlewares" -> 20

\* C6 as amended: the auth, input-validation, SQL-injection, CSRF, rate-limit
\* and missing-middleware deductions are capped, so each of these domains,
\* alone with findings, leaves the score at 100 minus its cap or above.
C6_CappedDomainAloneKeepsScore ==
    pc = "done" =>
      \A d \in CappedDomains :
        OnlyDomainWithFindings(results, d) => score >= 100 - C6_CapOf(d)

\* The auth domain alone with an extreme number of findings: the score is 80.
C6_Witness ==
    /\ pc = "done"
    /\ OnlyDomainWithFindings(results, "auth")
    /\ CountAt(results, <<"auth", "total">>) = ExtremeCount
    /\ score = 80

(***************************************************************************)
(* The domain-local scores, each as a function of the counts it reads.     *)
(***************************************************************************)
\* Math.min(100, score) without the lower limit
LimitLocalScoreAboveOnly(n) == Min(100, n)

\* Math.max(0, Math.min(100, score))
LimitLocalScore(n) == Max(0, Min(100, n))

\* The middleware score with every missing middleware counted as a HIGH one.
middlewaresSecurityScoreOnePriority(installed, missing, configIssues) ==
    LimitLocalScore(100 - missing.HIGH * 15 - missing.MEDIUM * 15 - configIssues * 10)

\* middlewareScanner.calculateSecurityScore(installed, missing, configIssues):
\* installed and missing give how many middlewares of each priority they hold.
middlewaresSecurityScore(installed, missing, configIssues) ==
    LimitLocalScore(100 - missing.HIGH * 15 - missing.MEDIUM * 5 - configIssues * 10)

\* The CORS score without the bonus for having no MEDIUM issue.
corsSecurityScoreNoMediumBonus(detected, wildcardIssues, highIssues, mediumIssues) ==
    IF detected
      THEN 50 + (IF wildcardIssues = 0 THEN 25 ELSE 0)
              + (IF highIssues = 0 THEN 15 ELSE 0)
      ELSE 0

\* The CORS score with the smaller bonus for up to two MEDIUM issues.
corsSecurityScoreTwoMedium(detected, wildcardIssues, highIssues, mediumIssues) ==
    IF detected
      THEN 50 + (IF wildcardIssues = 0 THEN 25 ELSE 0)
              + (IF highIssues = 0 THEN 15 ELSE 0)
              + (IF mediumIssues = 0 THEN 10 ELSE IF mediumIssues <= 2 THEN 5 ELSE 0)
      ELSE 0

\* scanCORS: detected is corsDetected || manualCorsHeaders.length > 0, the
\* other arguments count the issues named for the wildcard origin, the HIGH
\* issues and the MEDIUM issues of corsIssues.
corsSecurityScore(detected, wildcardIssues, highIssues, mediumIssues) ==
    IF detected
      THEN 50 + (IF wildcardIssues = 0 THEN 25 ELSE 0)
              + (IF highIssues = 0 THEN 15 ELSE 0)
              + (IF mediumIssues = 0 THEN 10 ELSE IF mediumIssues <= 1 THEN 5 ELSE 0)
      ELSE 0

\* The rate-limit score without the limits of its three terms.
rateLimitSecurityScoreUncapped(detections, installedPackages, configurationIssues, unprotectedEndpoints) ==
    LimitLocalScore(
        IF detections > 0
          THEN 50 + installedPackages * 5 - configurationIssues * 10 - unprotectedEndpoints * 10
          ELSE 0)

\* The rate-limit score without its test that a system was detected.
rateLimitSecurityScoreUnguarded(detections, installedPackages, configurationIssues, unprotectedEndpoints) ==
    LimitLocalScore(50 + Min(20, installedPackages * 5) - Min(40, configurationIssues * 10)
                    - Min(30, unprotectedEndpoints * 10))

\* scanRateLimit: the lengths of rateLimitDetections, installedPackages,
\* configurationIssues and unprotectedEndpoints.
rateLimitSecurityScore(detections, installedPackages, configurationIssues, unprotectedEndpoints) ==
    LimitLocalScore(
        IF detections > 0
          THEN 50 + Min(20, installedPackages * 5) - Min(40, configurationIssues * 10)
                  - Min(30, unprotectedEndpoints * 10)
          ELSE 0)

\* scanDependencies: audit is npm audit's metadata (Null when it failed),
\* outdated counts the HIGH and MEDIUM risk outdated packages (Null when npm
\* outdated failed).
dependenciesSecurityScore(audit, outdated) ==
    LimitLocalScore(
        100
        - (IF ~IsNull(audit)
             THEN Val(audit).critical * 20 + Val(audit).high * 10
                  + Val(audit).moderate * 5 + Val(audit).low * 2
             ELSE 0)
        - (IF ~IsNull(outdated) THEN Val(outdated).HIGH * 5 + Val(outdated).MEDIUM * 2 ELSE 0))

LocalCounts == (0..MaxCount) \cup {ExtremeCount}
OptionOf(S) == {Null} \cup {Some(x) : x \in S}

InitLocal ==
    /\ \/ \E i, m \in [HIGH : LocalCounts, MEDIUM : LocalCounts, LOW : {0, ExtremeCount}] :
          \E c \in LocalCounts :
            counts = [domain |-> "middlewares", installed |-> i, missing |-> m,
                      configIssues |-> c]
       \/ \E d \in BOOLEAN : \E w, h, m \in LocalCounts :
            counts = [domain |-> "cors", detected |-> d, wildcard |-> w, high |-> h,
                      medium |-> m]
       \/ \E d, i, c, u \in LocalCounts :
            counts = [domain |-> "rateLimit", detections |-> d, installed |-> i,
                      configurationIssues |-> c, unprotectedEndpoints |-> u]
       \/ \E a \in OptionOf([critical : LocalCounts, high : LocalCounts,
                             moderate : LocalCounts, low : LocalCounts]) :
          \E o \in OptionOf([HIGH : LocalCounts, MEDIUM : LocalCounts]) :
            counts = [domain |-> "dependencies", audit |-> a, outdated |-> o]
    /\ files = <<>>
    /\ manifest = Null
    /\ rule = NoRule
    /\ matches = <<>>
    /\ results = NoResults
    /\ score = 0
    /\ local = 0
    /\ cors = NoDomain
    /\ rateLimit = NoDomain
    /\ pc = "start"
    /\ RunIdle

ScoreUnchanged ==
    /\ UNCHANGED <<files, manifest, rule, matches, results, score, counts, cors, rateLimit>>
    /\ RunUnchanged

ScoreMiddlewares ==
    /\ pc = "start" /\ counts.domain = "middlewares"
    /\ local' = middlewaresSecurityScore(counts.installed, counts.missing, counts.configIssues)
    /\ pc' = "done"
    /\ ScoreUnchanged

ScoreCORS ==
    /\ pc = "start" /\ counts.domain = "cors"
    /\ local' = corsSecurityScore(counts.detected, counts.wildcard, counts.high, counts.medium)
    /\ pc' = "done"
    /\ ScoreUnchanged

ScoreRateLimit ==
    /\ pc = "start" /\ counts.domain = "rateLimit"
    /\ local' = rateLimitSecurityScore(counts.detections, counts.installed,
                                       counts.configurationIssues, counts.unprotectedEndpoints)
    /\ pc' = "done"
    /\ ScoreUnchanged

ScoreDependencies ==
    /\ pc = "start" /\ counts.domain = "dependencies"
    /\ local' = dependenciesSecurityScore(counts.audit, counts.outdated)
    /\ pc' = "done"
    /\ ScoreUnchanged

NextLocal == ScoreMiddlewares \/ ScoreCORS \/ ScoreRateLimit \/ ScoreDependencies
SpecLocal == InitLocal /\ [][NextLocal]_vars

\* C7: every domain-local securityScore (middlewares, CORS, rate limit,
\* dependencies) is an integer of 0..100 for arbitrary non-negative counts,
\* extreme ones included.
C7_LocalScoreInRange == pc = "done" => local \in 0..100

\* An extreme number of missing HIGH-priority middlewares: the score is 0.
C7_Witness ==
    /\ pc = "done"
    /\ counts.domain = "middlewares"
    /\ counts.missing.HIGH = ExtremeCount
    /\ local = 0

(***************************************************************************)
(* Projects for the domain aggregators: a manifest and source files whose  *)
(* content is made of whole lines.                                         *)
(***************************************************************************)
\* The lexemes of the double quote and of the backquote.
DoubleQuote == "dquote"
Backquote == "backquote"
Quotes == {"'", DoubleQuote, Backquote}
Quote == OneOf(Quotes)

RECURSIVE JoinLines(_)
JoinLines(ls) ==
    IF Len(ls) = 0 THEN <<>>
    ELSE IF Len(ls) = 1 THEN ls[1]
    ELSE ls[1] \o <<NL>> \o JoinLines(Tail(ls))

RECURSIVE LineSeqs(_, _)
LineSeqs(L, n) ==
    IF n = 0 THEN {<<>>}
    ELSE LET shorter == LineSeqs(L, n - 1)
         IN  shorter \cup {Append(t, x) : t \in {u \in shorter : Len(u) = n - 1}, x \in L}

\* The corpora of at most Len(Paths) files that hold at most budget lines of
\* L altogether; file k has path Paths[k].
RECURSIVE LineCorpora(_, _, _)
LineCorpora(L, k, budget) ==
    {<<>>} \cup
    (IF k > Len(Paths) THEN {}
     ELSE UNION {{<<[path |-> Paths[k], content |-> JoinLines(ls), readable |-> TRUE]>> \o rest :
                     rest \in LineCorpora(L, k + 1, budget - Len(ls))} :
                 ls \in LineSeqs(L, budget)})

\* parsePackageJson and { ...dependencies, ...devDependencies }: does the
\* manifest declare pkg (with a truthy version)?
Declares(mf, pkg) == ~IsNull(mf) /\ pkg \in Val(mf)

(***************************************************************************)
(* scanner/corsScanner                                                     *)
(***************************************************************************)
CorsLexemes == {"cors", "(", ")", "{", "}", "origin", "credentials", "methods",
                "allowedHeaders", "true", ":", ",", " ", NL, "*", "res", ".", "header",
                "Access-Control-Allow-", "Origin", "const", "x", "helmet"} \cup Quotes

\* cors\(\s*\{\s*
CorsOpen == <<Lit("cors"), Lit("("), WS, Lit("{"), WS>>
\* (?:[^}]*\s*,\s*)?
CorsEarlierOptions == Opt(Cat(<<Star(OneOf(CorsLexemes \ {"}"})), WS, Lit(","), WS>>))

\* The registry with the credentials rule rated HIGH.
corsPatternsCredentialsHigh == <<
    [name |-> "CORS permissif avec wildcard", severity |-> "HIGH",
     pattern |-> RegExp(Cat(CorsOpen \o <<Lit("origin"), WS, Lit(":"), WS,
                                          Quote, Lit("*"), Quote>>))],
    [name |-> "CORS avec credentials", severity |-> "HIGH",
     pattern |-> RegExp(Cat(CorsOpen \o <<CorsEarlierOptions, Lit("credentials"), WS,
                                          Lit(":"), WS, Lit("true")>>))],
    [name |-> "CORS avec methodes permissives", severity |-> "MEDIUM",
     pattern |-> RegExp(Cat(CorsOpen \o <<CorsEarlierOptions, Lit("methods"), WS, Lit(":"),
                   WS, Quote,
                   Cap(1, Alt(<<
                     Cat(<<Lit("GET"), Lit(","), WS, Lit("POST"), Lit(","), WS, Lit("PUT"),
                           Lit(","), WS, Lit("DELETE"), Lit(","), WS, Lit("PATCH")>>),
                     Cat(<<Star(OneOf(CorsLexemes \ {"'", DoubleQuote})), Lit("*"),
                           Star(OneOf(CorsLexemes \ {"'", DoubleQuote}))>>)>>)),
                   Quote>>))],
    [name |-> "CORS avec allowedHeaders permissifs", severity |-> "MEDIUM",
     pattern |-> RegExp(Cat(CorsOpen \o <<CorsEarlierOptions, Lit("allowedHeaders"), WS,
                                          Lit(":"), WS, Quote, Lit("*"), Quote>>))] >>

corsPatterns == <<
    [name |-> "CORS permissif avec wildcard", severity |-> "HIGH",
     pattern |-> RegExp(Cat(CorsOpen \o <<Lit("origin"), WS, Lit(":"), WS,
                                          Quote, Lit("*"), Quote>>))],
    [name |-> "CORS avec credentials", severity |-> "MEDIUM",
     pattern |-> RegExp(Cat(CorsOpen \o <<CorsEarlierOptions, Lit("credentials"), WS,
                                          Lit(":"), WS, Lit("true")>>))],
    [name |-> "CORS avec methodes permissives", severity |-> "MEDIUM",
     pattern |-> RegExp(Cat(CorsOpen \o <<CorsEarlierOptions, Lit("methods"), WS, Lit(":"),
                   WS, Quote,
                   Cap(1, Alt(<<
                     Cat(<<Lit("GET"), Lit(","), WS, Lit("POST"), Lit(","), WS, Lit("PUT"),
                           Lit(","), WS, Lit("DELETE"), Lit(","), WS, Lit("PATCH")>>),
                     Cat(<<Star(OneOf(CorsLexemes \ {"'", DoubleQuote})), Lit("*"),
                           Star(OneOf(CorsLexemes \ {"'", DoubleQuote}))>>)>>)),
                   Quote>>))],
    [name |-> "CORS avec allowedHeaders permissifs", severity |-> "MEDIUM",
     pattern |-> RegExp(Cat(CorsOpen \o <<CorsEarlierOptions, Lit("allowedHeaders"), WS,
                                          Lit(":"), WS, Quote, Lit("*"), Quote>>))] >>

\* /cors\(/i
CorsUsagePattern == RegExp(Cat(<<Lit("cors"), Lit("(")>>))
\* /res\.header\([quote](Access-Control-Allow-|Origin)/i
ManualCorsPattern ==
    RegExp(Cat(<<Lit("res"), Lit("."), Lit("header"), Lit("("), Quote,
                 Cap(1, Alt(<<Lit("Access-Control-Allow-"), Lit("Origin")>>))>>))
\* /helmet\(/i
HelmetPattern == RegExp(Cat(<<Lit("helmet"), Lit("(")>>))
\* /origin\s*:\s*([^,}]+)/i and /credentials\s*:\s*([^,}]+)/i
OptionValuePattern(key) ==
    Cat(<<Lit(key), WS, Lit(":"), WS, Cap(1, Plus(OneOf(CorsLexemes \ {",", "}"})))>>)

\* The issues one rule adds: one for each record the matcher returns.
IssuesOf(fs, rl) ==
    LET found == findFilesWithPattern(fs, rl.pattern)
    IN  [j \in 1..Len(found) |->
           [file |-> found[j].file, line |-> found[j].line, name |-> rl.name,
            severity |-> rl.severity, context |-> found[j].context]]

\* issues.filter(issue => issue[key] === value).length
CountWhere(seq, key, value) == Cardinality({k \in 1..Len(seq) : seq[k][key] = value})

\* The configuration extracted from one cors( usage.
CorsConfiguration(result) ==
    LET context == IF IsNull(result.context) THEN <<>> ELSE Val(result.context)
        originMatch == StringMatch(context, OptionValuePattern("origin"))
        credentialsMatch == StringMatch(context, OptionValuePattern("credentials"))
    IN  [file |-> result.file, line |-> result.line,
         origin |-> IF ~IsNull(originMatch)
                      THEN Some(Trim(Val(Val(originMatch).g[1]))) ELSE Null,
         credentials |-> IF ~IsNull(credentialsMatch)
                           THEN Some(Trim(Val(Val(credentialsMatch).g[1]))) ELSE Null,
         context |-> context]

scanCORS(fs, mf) ==
    LET corsInstalled == IF ~IsNull(mf)
                           THEN (IF Declares(mf, "cors") THEN "version" ELSE "undefined")
                           ELSE "false"
        corsUsage == findFilesWithPattern(fs, CorsUsagePattern)
        corsDetected == Len(corsUsage) > 0
        manualCorsHeaders == findFilesWithPattern(fs, ManualCorsPattern)
        corsIssues == Flat([k \in 1..Len(corsPatterns) |-> IssuesOf(fs, corsPatterns[k])])
        wildcardOrigin == CountWhere(corsIssues, "name", "CORS permissif avec wildcard") > 0
        corsStatus == IF corsDetected
                        THEN (IF wildcardOrigin THEN "CORS permissif (*) detecte"
                              ELSE "CORS restreint")
                        ELSE IF Len(manualCorsHeaders) > 0
                          THEN "Configuration CORS manuelle detectee"
                          ELSE "Aucun CORS detecte"
        helmetUsage == findFilesWithPattern(fs, HelmetPattern)
    IN  [installed |-> corsInstalled,
         detected |-> corsDetected \/ Len(manualCorsHeaders) > 0,
         status |-> corsStatus,
         issues |-> corsIssues,
         configurations |-> [k \in 1..Len(corsUsage) |-> CorsConfiguration(corsUsage[k])],
         manualHeaders |-> Len(manualCorsHeaders) > 0,
         helmetUsed |-> Len(helmetUsage) > 0,
         securityScore |-> corsSecurityScore(corsDetected \/ Len(manualCorsHeaders) > 0,
                                             CountWhere(corsIssues, "name",
                                                        "CORS permissif avec wildcard"),
                                             CountWhere(corsIssues, "severity", "HIGH"),
                                             CountWhere(corsIssues, "severity", "MEDIUM"))]

\* Source lines of a project that uses CORS.
WildcardLine == <<"cors", "(", "{", "origin", ":", " ", "'", "*", "'", "}", ")">>
NeutralLine == <<"const", " ", "x">>
CorsLines == {
    WildcardLine,
    NeutralLine,
    <<"cors", "(", ")">>,
    <<"cors", "(", "{">>,
    <<" ", "origin", ":", " ", "'", "*", "'", "}", ")">>,
    <<"cors", "(", "{", "credentials", ":", " ", "true", "}", ")">>,
    <<"cors", "(", "{", "origin", ":", " ", "'", "*", "'", ",", " ", "credentials", ":",
      " ", "true", "}", ")">>,
    <<"cors", "(", "{", "methods", ":", " ", "'", "*", "'", "}", ")">>,
    <<"cors", "(", "{", "allowedHeaders", ":", " ", "'", "*", "'", "}", ")">>,
    <<"res", ".", "header", "(", "'", "Access-Control-Allow-", "Origin", "'", ",", " ",
      "'", "*", "'", ")">>}

MaxLines == 2
SecurityPackages == {"helmet", "cors", "express-rate-limit", "csurf"}
CorsManifests == {Null, Some({}), Some({"express"}), Some({"cors"})}

InitCORS ==
    /\ files \in LineCorpora(CorsLines, 1, MaxLines)
    /\ manifest \in CorsManifests
    /\ rule = NoRule
    /\ matches = <<>>
    /\ results = NoResults
    /\ score = 0
    /\ counts = NoCounts
    /\ local = 0
    /\ cors = NoDomain
    /\ rateLimit = NoDomain
    /\ pc = "start"
    /\ RunIdle

\* const cors = await scanCORS(absolutePath)
ScanCORS ==
    /\ pc = "start"
    /\ cors' = scanCORS(files, manifest)
    /\ pc' = "done"
    /\ UNCHANGED <<files, manifest, rule, matches, results, score, counts, local, rateLimit>>
    /\ RunUnchanged

NextCORS == ScanCORS
SpecCORS == InitCORS /\ [][NextCORS]_vars

\* The project of claim C8: a manifest that declares no security package and
\* one source file that holds cors({origin: '*'}) and nothing else about CORS.
C8_Scenario ==
    /\ ~IsNull(manifest) /\ Val(manifest) \cap SecurityPackages = {}
    /\ Len(files) = 1
    /\ LET lines == SplitLines(files[1].content)
       IN  /\ \E k \in 1..Len(lines) : lines[k] = WildcardLine
           /\ \A k \in 1..Len(lines) : lines[k] \in {WildcardLine, NeutralLine}

C8_WildcardFound ==
    /\ cors.detected
    /\ Len(cors.issues) = 1
    /\ cors.issues[1].severity = "HIGH"
    /\ cors.issues[1].name = "CORS permissif avec wildcard"

\* C8 as claimed: the scenario yields detected, one HIGH wildcard issue and a
\* securityScore of exactly 50.
C8_WildcardScenarioScores50 ==
    pc = "done" /\ C8_Scenario => C8_WildcardFound /\ cors.securityScore = 50

\* C8 as amended: the scenario yields detected, one HIGH wildcard issue and a
\* securityScore of exactly 60 (50, and 10 for having no MEDIUM issue).
C8_WildcardScenarioScores60 ==
    pc = "done" /\ C8_Scenario => C8_WildcardFound /\ cors.securityScore = 60

C8_Witness == pc = "done" /\ C8_Scenario /\ cors.securityScore = 60

(***************************************************************************)
(* scanner/rateLimitScanner                                                *)
(*                                                                         *)
(* A number is the sequence of its decimal digits, a route path the        *)
(* sequence of its slashes and segments.  The lexemes of the corpus are    *)
(* in the case the patterns spell, so the i flag changes no match.         *)
(***************************************************************************)
RateLimitLexemes ==
    {"app", ".", "get", "post", "put", "delete", "patch", "use", "(", ")", "{", "}",
     "/", "login", "users", "api", "auth", ",", " ", NL, "h", "rateLimit", "rateLimiter",
     "limiter", "max", "windowMs", "message", ":", "require", "import", "from",
     "function", "express-rate-limit", "rate-limiter-flexible", "express-brute",
     "node-rate-limiter", "rate-limit-redis", "x"} \cup Digits \cup Quotes

\* ['"]
QuoteSD == OneOf({"'", DoubleQuote})
\* \s+
WS1 == Plus(OneOf(Whitespace))
\* The literal text s.
LitSeq(s) == Cat([k \in 1..Len(s) |-> Lit(s[k])])

\* /require\(['"]pkg['"]|import\s+.*\s+from\s+['"]pkg['"]/i
RequireOrImport(pkg) ==
    RegExp(Alt(<<Cat(<<Lit("require"), Lit("("), QuoteSD, Lit(pkg), QuoteSD>>),
                 Cat(<<Lit("import"), WS1, Star(OneOf(RateLimitLexemes \ {NL})), WS1,
                       Lit("from"), WS1, QuoteSD, Lit(pkg), QuoteSD>>)>>))

rateLimitingPackages == <<"express-rate-limit", "rate-limiter-flexible", "express-brute",
                          "node-rate-limiter", "rate-limit-redis">>

rateLimitPatterns ==
    [k \in 1..Len(rateLimitingPackages) |->
       [name |-> rateLimitingPackages[k], pattern |-> RequireOrImport(rateLimitingPackages[k])]]
    \o <<[name |-> "custom-rate-limiter",
          pattern |-> RegExp(Cat(<<Lit("function"), WS1,
                                   Cap(1, Alt(<<Lit("rateLimit"), Lit("rateLimiter"),
                                                Lit("limiter")>>))>>))]>>

\* rateLimit\(\s*\{\s*
RateLimitOpen == <<Lit("rateLimit"), Lit("("), WS, Lit("{"), WS>>
\* (?:[^}]*\s*,\s*)?
RateLimitEarlierOptions ==
    Opt(Cat(<<Star(OneOf(RateLimitLexemes \ {"}"})), WS, Lit(","), WS>>))
\* rateLimit\(\s*\{\s*(?:[^}]*\s*,\s*)?key\s*:\s*(\d+)
NumericOptionPattern(key) ==
    RegExp(Cat(RateLimitOpen \o <<RateLimitEarlierOptions, Lit(key), WS, Lit(":"), WS,
                                  Cap(1, Plus(OneOf(Digits)))>>))

LowLimit == "Limite de taux faible"
ShortWindow == "Fenetre de temps de limite courte"
NoMessage == "Absence de message d'erreur"

rateLimitConfigPatterns == <<
    [name |-> LowLimit, pattern |-> NumericOptionPattern("max"),
     severity |-> "MEDIUM", threshold |-> Some(100)],
    [name |-> ShortWindow, pattern |-> NumericOptionPattern("windowMs"),
     severity |-> "LOW", threshold |-> Some(60000)],
    [name |-> NoMessage,
     pattern |-> RegExp(Cat(RateLimitOpen \o
                   <<NotAhead(Cat(<<Star(OneOf(RateLimitLexemes \ {"}"})),
                                    Lit("message"), Lit(":")>>))>>)),
     severity |-> "LOW", threshold |-> Null] >>

sensitivePaths == <<
    <<"/", "login">>, <<"/", "signin">>, <<"/", "register">>, <<"/", "signup">>,
    <<"/", "auth">>, <<"/", "reset-password">>, <<"/", "forgot-password">>,
    <<"/", "api", "/", "auth">>, <<"/", "api", "/", "login">>,
    <<"/", "api", "/", "signup">> >>

DigitValue(d) ==
    CASE d = "0" -> 0 [] d = "1" -> 1 [] d = "2" -> 2 [] d = "3" -> 3 [] d = "4" -> 4
      [] d = "5" -> 5 [] d = "6" -> 6 [] d = "7" -> 7 [] d = "8" -> 8 [] d = "9" -> 9

RECURSIVE DecimalValue(_)
DecimalValue(ds) ==
    IF Len(ds) = 0 THEN 0
    ELSE 10 * DecimalValue(SubSeq(ds, 1, Len(ds) - 1)) + DigitValue(ds[Len(ds)])

\* parseInt(text, 10): the value of the leading digits, Null (NaN) without one.
parseInt(text) ==
    LET n == RunLength(Digits, text, 1)
    IN  IF n = 0 THEN Null ELSE Some(DecimalValue(SubSeq(text, 1, n)))

\* A string is truthy when it is neither null nor empty.
TruthyText(opt) == ~IsNull(opt) /\ Len(Val(opt)) > 0

\* The issues one configuration rule adds.  The threshold test runs only for
\* a rule with a threshold and a record with a context; without it the record
\* is pushed with a null value.
ConfigurationIssuesOf(fs, rl) ==
    LET found == findFilesWithPattern(fs, rl.pattern)
        IssueOf(result) ==
            LET tested == ~IsNull(rl.threshold) /\ TruthyText(result.context)
                match == IF tested THEN StringMatch(Val(result.context), rl.pattern.re)
                         ELSE Null
                captured == ~IsNull(match) /\ TruthyText(Val(match).g[1])
                value == IF captured THEN parseInt(Val(Val(match).g[1])) ELSE Null
                skipped == /\ ~IsNull(value)
                           /\ \/ rl.name = LowLimit /\ Val(value) <= Val(rl.threshold)
                              \/ rl.name = ShortWindow /\ Val(value) >= Val(rl.threshold)
            IN  IF skipped THEN <<>>
                ELSE <<[file |-> result.file, line |-> result.line, name |-> rl.name,
                        severity |-> rl.severity, context |-> result.context,
                        value |-> value]>>
    IN  Flat([j \in 1..Len(found) |-> IssueOf(found[j])])

Methods == {"get", "post", "put", "delete", "patch"}

\* /app\.(get|post|put|delete|patch)\(\s*[quote]([^quote]+)[quote]/i
RoutePattern ==
    RegExp(Cat(<<Lit("app"), Lit("."), Cap(1, OneOf(Methods)), Lit("("), WS, Quote,
                 Cap(2, Plus(OneOf(RateLimitLexemes \ Quotes))), Quote>>))

UpperCased(x) ==
    CASE x = "get" -> "GET" [] x = "post" -> "POST" [] x = "put" -> "PUT"
      [] x = "delete" -> "DELETE" [] x = "patch" -> "PATCH" [] OTHER -> x
LowerCased(x) ==
    CASE x = "GET" -> "get" [] x = "POST" -> "post" [] x = "PUT" -> "put"
      [] x = "DELETE" -> "delete" [] x = "PATCH" -> "patch" [] OTHER -> x
toUpperCase(text) == [k \in 1..Len(text) |-> UpperCased(text[k])]
toLowerCase(text) == [k \in 1..Len(text) |-> LowerCased(text[k])]

\* The depth of open groups after each prefix of a pattern source.
RECURSIVE GroupDepth(_, _)
GroupDepth(src, k) ==
    IF k = 0 THEN 0
    ELSE GroupDepth(src, k - 1)
         + (IF src[k] = "(" THEN 1 ELSE IF src[k] = ")" THEN 0 - 1 ELSE 0)

\* Does new RegExp(src) construct a pattern?  It throws a SyntaxError for an
\* unterminated group, an unmatched ) and a quantifier with nothing to repeat.
ValidSource(src) ==
    /\ \A k \in 1..Len(src) : GroupDepth(src, k) >= 0
    /\ GroupDepth(src, Len(src)) = 0
    /\ \A k \in 1..Len(src) :
          src[k] \in {"*", "+"} => (k > 1 /\ src[k - 1] \notin {"(", "*", "+"})

\* The pattern a valid source denotes: ( ) group, . is any lexeme but a line
\* terminator, * and + repeat the atom before them, anything else is itself.
RECURSIVE ParseItems(_, _, _)
ParseItems(src, i, acc) ==
    IF i > Len(src) \/ src[i] = ")" THEN [items |-> acc, next |-> i]
    ELSE LET inner == ParseItems(src, i + 1, <<>>)
             atom == IF src[i] = "(" THEN Cat(inner.items)
                     ELSE IF src[i] = "." THEN OneOf(RateLimitLexemes \ {NL})
                     ELSE Lit(src[i])
             after == IF src[i] = "(" THEN inner.next + 1 ELSE i + 1
         IN  IF after <= Len(src) /\ src[after] = "*"
               THEN ParseItems(src, after + 1, Append(acc, Star(atom)))
             ELSE IF after <= Len(src) /\ src[after] = "+"
               THEN ParseItems(src, after + 1, Append(acc, Plus(atom)))
             ELSE ParseItems(src, after, Append(acc, atom))

\* new RegExp of app\.(?:use|method)\(\s*[quote]path[quote]\s*,\s*(?:rateLimit|limiter)
\* with the path interpolated into the source as it is.
ProtectedRoutePattern(method, path) ==
    RegExp(Cat(<<Lit("app"), Lit("."), Alt(<<Lit("use"), LitSeq(toLowerCase(method))>>),
                 Lit("("), WS, Quote>> \o ParseItems(path, 1, <<>>).items \o
               <<Quote, WS, Lit(","), WS, Alt(<<Lit("rateLimit"), Lit("limiter")>>)>>))

\* sensitivePaths.some(sensitive => path === sensitive || path.includes(sensitive + '/'))
IsSensitive(path) ==
    \E k \in 1..Len(sensitivePaths) :
        path = sensitivePaths[k] \/ Includes(path, sensitivePaths[k] \o <<"/">>)

\* The endpoints the loop over routeDefinitions pushes.
UnprotectedEndpointsOf(fs) ==
    LET routeDefinitions == findFilesWithPattern(fs, RoutePattern)
        EndpointOf(route) ==
            LET context == IF TruthyText(route.context) THEN Val(route.context) ELSE <<>>
                routeMatch == StringMatch(context, RoutePattern.re)
            IN  IF ~IsNull(routeMatch) /\ TruthyText(Val(routeMatch).g[2])
                  THEN LET path == Val(Val(routeMatch).g[2])
                           method == toUpperCase(Val(Val(routeMatch).g[1]))
                       IN  IF IsSensitive(path) /\ method = <<"POST">>
                                /\ Len(findFilesWithPattern(
                                         fs, ProtectedRoutePattern(method, path))) = 0
                             THEN <<[path |-> path, method |-> method,
                                     file |-> route.file, line |-> route.line]>>
                             ELSE <<>>
                  ELSE <<>>
    IN  Flat([j \in 1..Len(routeDefinitions) |-> EndpointOf(routeDefinitions[j])])

\* Does the loop over routeDefinitions reach a new RegExp that throws?
RouteCheckThrows(fs) ==
    LET routeDefinitions == findFilesWithPattern(fs, RoutePattern)
    IN  \E j \in 1..Len(routeDefinitions) :
          LET context == IF TruthyText(routeDefinitions[j].context)
                           THEN Val(routeDefinitions[j].context) ELSE <<>>
              routeMatch == StringMatch(context, RoutePattern.re)
          IN  /\ ~IsNull(routeMatch)
              /\ TruthyText(Val(routeMatch).g[2])
              /\ IsSensitive(Val(Val(routeMatch).g[2]))
              /\ toUpperCase(Val(Val(routeMatch).g[1])) = <<"POST">>
              /\ ~ValidSource(Val(Val(routeMatch).g[2]))

\* The value scanRateLimit returns when it does not throw.
scanRateLimit(fs, mf) ==
    LET installedPackages ==
            IF IsNull(mf) THEN <<>>
            ELSE Flat([k \in 1..Len(rateLimitingPackages) |->
                         IF Declares(mf, rateLimitingPackages[k])
                           THEN <<rateLimitingPackages[k]>> ELSE <<>>])
        DetectionOf(rl) ==
            LET found == findFilesWithPattern(fs, rl.pattern)
            IN  IF Len(found) > 0 THEN <<[type |-> rl.name, occurrences |-> found]>>
                ELSE <<>>
        rateLimitDetections ==
            Flat([k \in 1..Len(rateLimitPatterns) |-> DetectionOf(rateLimitPatterns[k])])
        configurationIssues ==
            Flat([k \in 1..Len(rateLimitConfigPatterns) |->
                    ConfigurationIssuesOf(fs, rateLimitConfigPatterns[k])])
        unprotectedEndpoints == UnprotectedEndpointsOf(fs)
        status == IF Len(rateLimitDetections) > 0
                    THEN (IF Len(configurationIssues) = 0 /\ Len(unprotectedEndpoints) = 0
                            THEN "Rate-limiting correctement configure"
                            ELSE "Rate-limiting detecte mais mal configure ou incomplet")
                    ELSE "Aucun systeme de rate-limiting detecte"
    IN  [status |-> status,
         installed |-> [packages |-> installedPackages, count |-> Len(installedPackages)],
         detected |-> [implementations |-> rateLimitDetections,
                       count |-> Len(rateLimitDetections)],
         issues |-> [configurationProblems |-> configurationIssues,
                     unprotectedEndpoints |-> unprotectedEndpoints,
                     count |-> Len(configurationIssues) + Len(unprotectedEndpoints)],
         securityScore |-> rateLimitSecurityScore(Len(rateLimitDetections),
                                                  Len(installedPackages),
                                                  Len(configurationIssues),
                                                  Len(unprotectedEndpoints))]

\* Source lines of a project that limits request rates.
RateLimitCall(key, digits, more) ==
    <<"rateLimit", "(", "{", " ", key, ":", " ">> \o digits \o more \o <<" ", "}", ")">>
RouteLine(method, path, middleware) ==
    <<"app", ".", method, "(", "'">> \o path \o <<"'", ",", " ">> \o middleware \o <<"h", ")">>
LoginPath == <<"/", "login">>
MaxValues == {<<"5", "0">>, <<"1", "0", "0">>, <<"5", "0", "0">>}
RateLimitLines ==
    {RateLimitCall("max", v, <<>>) : v \in MaxValues} \cup
    {<<"require", "(", "'", "express-rate-limit", "'", ")">>,
     RateLimitCall("windowMs", <<"1", "0", "0", "0">>, <<>>),
     RateLimitCall("windowMs", <<"6", "0", "0", "0", "0">>,
                   <<",", " ", "message", ":", " ", "'", "x", "'">>),
     <<"rateLimit", "(", "{">>,
     <<" ", " ", "max", ":", " ", "5", "0", " ", "}", ")">>,
     RouteLine("get", <<"/", "users">>, <<>>),
     RouteLine("post", LoginPath, <<>>),
     RouteLine("post", LoginPath, <<"limiter", ",", " ">>)}

RateLimitManifests == {Null, Some({"express", "express-rate-limit"})}

InitRateLimit ==
    /\ files \in LineCorpora(RateLimitLines, 1, MaxLines)
    /\ manifest \in RateLimitManifests
    /\ rule = NoRule
    /\ matches = <<>>
    /\ results = NoResults
    /\ score = 0
    /\ counts = NoCounts
    /\ local = 0
    /\ cors = NoDomain
    /\ rateLimit = NoDomain
    /\ pc = "start"
    /\ RunIdle

\* const rateLimit = await scanRateLimit(absolutePath)
ScanRateLimit ==
    /\ pc = "start"
    /\ rateLimit' = IF RouteCheckThrows(files) THEN Threw("SyntaxError")
                    ELSE scanRateLimit(files, manifest)
    /\ pc' = "done"
    /\ UNCHANGED <<files, manifest, rule, matches, results, score, counts, local, cors>>
    /\ RunUnchanged

NextRateLimit == ScanRateLimit
SpecRateLimit == InitRateLimit /\ [][NextRateLimit]_vars

\* The lexemes that use or name a rate limiter.
C14_UsageLexemes ==
    {"rateLimit", "rateLimiter", "limiter"}
    \cup {rateLimitingPackages[k] : k \in 1..Len(rateLimitingPackages)}
\* The manifest declares express-rate-limit and no source file uses a limiter.
C14_DeclaredNotUsed ==
    /\ Declares(manifest, "express-rate-limit")
    /\ \A k \in 1..Len(files) : \A j \in 1..Len(files[k].content) :
          files[k].content[j] \notin C14_UsageLexemes

\* C14: a manifest that declares express-rate-limit with no rate-limiting
\* usage in the source gives installed.packages with express-rate-limit,
\* detected.count 0, the status of no system detected and securityScore 0.
C14_DeclaredButUnusedScoresZero ==
    (pc = "done" /\ C14_DeclaredNotUsed) =>
        /\ \E k \in 1..Len(rateLimit.installed.packages) :
              rateLimit.installed.packages[k] = "express-rate-limit"
        /\ rateLimit.detected.count = 0
        /\ rateLimit.status = "Aucun systeme de rate-limiting detecte"
        /\ rateLimit.securityScore = 0

\* The scan ran on such a project whose source declares a sensitive route.
C14_Witness ==
    /\ pc = "done" /\ C14_DeclaredNotUsed
    /\ Len(files) > 0
    /\ Len(rateLimit.issues.unprotectedEndpoints) > 0
    /\ rateLimit.securityScore = 0

\* The value rule rl captures in file f: Null when its pattern does not match.
C9_Captured(f, rl) ==
    LET match == StringMatch(readFileContent(f), rl.pattern.re)
    IN  IF IsNull(match) THEN Null ELSE parseInt(Val(Val(match).g[1]))

C9_Reported(f, name) ==
    \E j \in 1..Len(rateLimit.issues.configurationProblems) :
        /\ rateLimit.issues.configurationProblems[j].file = f.path
        /\ rateLimit.issues.configurationProblems[j].name = name

\* C9: for every file in which a threshold rule matches, the low-limit issue
\* is reported exactly when the captured max is greater than 100, and the
\* short-window issue exactly when the captured windowMs is below 60000; a
\* captured value in the safe range is never reported.
C9_ThresholdFilter ==
    pc = "done" =>
        \A k \in 1..Len(files) :
            LET max == C9_Captured(files[k], rateLimitConfigPatterns[1])
                windowMs == C9_Captured(files[k], rateLimitConfigPatterns[2])
            IN  /\ C9_Reported(files[k], LowLimit) <=> (~IsNull(max) /\ Val(max) > 100)
                /\ C9_Reported(files[k], ShortWindow)
                     <=> (~IsNull(windowMs) /\ Val(windowMs) < 60000)

\* The route declared on line n of file k, Null when the line declares none.
C10_RouteAt(k, n) ==
    LET match == StringMatch(SplitLines(readFileContent(files[k]))[n], RoutePattern.re)
    IN  IF IsNull(match) THEN Null
        ELSE Some([method |-> Val(Val(match).g[1]), path |-> Val(Val(match).g[2])])

C10_Declarations ==
    {d \in UNION {{<<k, n>> : n \in 1..Len(SplitLines(readFileContent(files[k])))} :
                  k \in 1..Len(files)} :
        /\ ~IsNull(C10_RouteAt(d[1], d[2]))
        /\ Val(C10_RouteAt(d[1], d[2])).method = <<"post">>
        /\ IsSensitive(Val(C10_RouteAt(d[1], d[2])).path)}

\* Some line of the corpus gives the route a rate limiter.
C10_HasLimiter(path) ==
    \E k \in 1..Len(files) :
        \E n \in 1..Len(SplitLines(readFileContent(files[k]))) :
            ~IsNull(StringMatch(SplitLines(readFileContent(files[k]))[n],
                                ProtectedRoutePattern(<<"POST">>, path).re))

C10_Flagged(d) ==
    \E j \in 1..Len(rateLimit.issues.unprotectedEndpoints) :
        /\ rateLimit.issues.unprotectedEndpoints[j].file = files[d[1]].path
        /\ rateLimit.issues.unprotectedEndpoints[j].line = Some(d[2])
        /\ rateLimit.issues.unprotectedEndpoints[j].path = Val(C10_RouteAt(d[1], d[2])).path

\* C10: every sensitive POST route declaration without a rate limiter is in
\* unprotectedEndpoints, wherever it stands in its file, and none with a rate
\* limiter is.
C10_SensitivePostRoutesFlagged ==
    pc = "done" =>
        \A d \in C10_Declarations :
            C10_Flagged(d) <=> ~C10_HasLimiter(Val(C10_RouteAt(d[1], d[2])).path)

(***************************************************************************)
(* Source text of the other aggregators.  A word lexeme stands for one     *)
(* identifier, keyword or character of a value; a pattern that looks for   *)
(* letters inside a word (.*auth, .*csrf) is a class of the word lexemes   *)
(* that hold them.                                                         *)
(***************************************************************************)
Letters == {"U", "s", "e", "r"}
AuthWords == {"auth", "isAuth", "isAuthenticated", "authenticate", "requireAuth"}
CsrfWords == {"csrf", "csurf", "csrfToken", "CSRF_TOKEN", "csrfProtection"}
WordLexemes ==
    {"app", "use", "get", "post", "put", "delete", "patch", "session", "secure", "httpOnly",
     "sameSite", "true", "false", "jwt", "sign", "decode", "function", "authenticate",
     "login", "signIn", "check", "Auth", "req", "user", "currentUser", "role", "admin",
     "superuser", "password", "compare", "match", "matches", "secret", "api", "users",
     "h", "x", "body", "params", "query", "name", "eval", "Function", "setTimeout",
     "setInterval", "const", "innerHTML", "db", "document", "write",
     "dangerouslySetInnerHTML", "send", "parseInt", "null", "helmet", "cors", "require",
     "rateLimit", "rateLimiter", "limiter", "xss", "hpp", "sanitizeHtml", "mongoSanitize",
     "contentSecurityPolicy", "compression", "validationResult", "origin", "max",
     "process", "env", "fetch", "method", "axios", "res", "cookie", "cookies", "maxAge",
     "PORT", "KEY", "POST", "PUT", "DELETE", "PATCH", "_", "key", "access",
     "client", "passwd", "pwd", "token", "aws", "id", "AIza", "firebase", "github",
     "mongodb", "srv", "host", "BEGIN", "PRIVATE", "BLOCK", "SELECT", "INSERT",
     "UPDATE", "CREATE", "ALTER", "DROP", "FROM", "con", "connection", "database", "sql",
     "raw", "sequelize", "find", "findOne", "findById", "updateOne", "updateMany", "where",
     "set", "Model", "cookieParser", "localStorage", "sessionStorage", "setItem", "domain",
     "authToken"}
    \cup Letters \cup AuthWords \cup CsrfWords \cup Digits
PackageLexemes ==
    {"express-rate-limit", "express-validator", "sanitize-html", "express-mongo-sanitize",
     "xss-clean", "express-session"}
SourceLexemes ==
    WordLexemes \cup PackageLexemes \cup Quotes
    \cup {".", "(", ")", "{", "}", ",", ";", ":", "=", "==", "===", "/", "*", " ", NL,
          "-", "+", "@", "-----", "$"}

\* . (any lexeme but a line terminator) and .*
Dot == OneOf(SourceLexemes \ {NL})
DotStar == Star(Dot)
\* [^...]
NoneOf(S) == OneOf(SourceLexemes \ S)
\* app\.
App == <<Lit("app"), Lit(".")>>
\* req\.(body|params|query)
ReqInput(k) == <<Lit("req"), Lit("."), Cap(k, Alt(<<Lit("body"), Lit("params"), Lit("query")>>))>>

\* The issues one rule adds in the aggregators that name a rule by its type.
TypedIssuesOf(fs, rl) ==
    LET found == findFilesWithPattern(fs, rl.pattern)
    IN  [j \in 1..Len(found) |->
           [file |-> found[j].file, line |-> found[j].line, type |-> rl.type,
            severity |-> rl.severity, context |-> found[j].context]] \o <<>>

\* An issue loop that goes file by file, each file through every rule.
TypedIssuesByFile(fs, rules) ==
    Flat([f \in 1..Len(fs) |->
            Flat([k \in 1..Len(rules) |-> TypedIssuesOf(<<fs[f]>>, rules[k])])])

\* for (const pattern of rules) for (const result of results) issues.push(...)
TypedIssues(fs, rules) == Flat([k \in 1..Len(rules) |-> TypedIssuesOf(fs, rules[k])])

\* What the manifest loop of an aggregator leaves in installedPackages and
\* missingPackages: both stay empty when parsePackageJson returned null.
InstalledOf(mf, recommended) ==
    IF IsNull(mf) THEN <<>>
    ELSE Flat([k \in 1..Len(recommended) |->
                 IF recommended[k] \in Val(mf) THEN <<recommended[k]>> ELSE <<>>])
MissingOf(mf, recommended) ==
    IF IsNull(mf) THEN <<>>
    ELSE Flat([k \in 1..Len(recommended) |->
                 IF recommended[k] \in Val(mf) THEN <<>> ELSE <<recommended[k]>>])

(***************************************************************************)
(* scanner/authScanner                                                     *)
(***************************************************************************)
\* app\.use\(\s*session\(\s*\{\s*(?!.*option:.*true).*\}\s*\)\s*\)
SessionWithout(option) ==
    RegExp(Cat(App \o <<Lit("use"), Lit("("), WS, Lit("session"), Lit("("), WS, Lit("{"), WS,
                        NotAhead(Cat(<<DotStar, Lit(option), Lit(":"), DotStar, Lit("true")>>)),
                        DotStar, Lit("}"), WS, Lit(")"), WS, Lit(")")>>))
JwtSign == <<Lit("jwt"), Lit("."), Lit("sign"), Lit("(")>>
Alnum == WordLexemes \ {"CSRF_TOKEN", "_"}

authPatterns == <<
    [type |-> "Mot de passe en clair", severity |-> "HIGH",
     pattern |-> RegExp(Cat(<<Lit("."),
                   Cap(1, Alt(<<Lit("compare"), Lit("match"), Lit("matches")>>)),
                   Lit("("), WS, Opt(Cap(2, Quote)), Lit("password"), Opt(Cap(3, Quote)),
                   WS, Lit(",")>>))],
    [type |-> "Session non securisee", severity |-> "MEDIUM",
     pattern |-> SessionWithout("secure")],
    [type |-> "Session avec cookie httpOnly manquant", severity |-> "MEDIUM",
     pattern |-> SessionWithout("httpOnly")],
    [type |-> "JWT non verifie", severity |-> "LOW", pattern |-> RegExp(Cat(JwtSign))],
    [type |-> "Cle secrete JWT faible", severity |-> "HIGH",
     pattern |-> RegExp(Cat(JwtSign \o <<Plus(NoneOf({","})), Lit(","), WS, Quote,
                                         Between(Alnum, 1, 32), Quote>>))],
    [type |-> "Expiration manquante", severity |-> "MEDIUM",
     pattern |-> RegExp(Cat(JwtSign \o <<Star(NoneOf({")"})), Lit(")"), WS, Lit(";")>>))],
    [type |-> "JWT sans validation", severity |-> "HIGH",
     pattern |-> RegExp(Cat(<<Lit("jwt"), Lit("."), Lit("decode"), Lit("(")>>))],
    [type |-> "Authentification personnalisee", severity |-> "LOW",
     pattern |-> RegExp(Cat(<<Lit("function"), WS1,
                   Cap(1, Alt(<<Lit("authenticate"), Lit("login"), Lit("signIn"),
                                Cat(<<Lit("check"), OneOf(Letters), Star(OneOf(Letters)),
                                      Lit("Auth")>>),
                                Lit("isAuth")>>))>>))],
    [type |-> "Authentification sans verification de role", severity |-> "INFO",
     pattern |-> RegExp(Cat(<<Lit("req"), Lit("."),
                   Cap(1, Alt(<<Lit("user"), Lit("currentUser"), Lit("auth")>>)),
                   Lit("."), Lit("role")>>))] >>

\* app\.(get|post|put|delete|patch)\(\s*[quote]prefix[^quote]+[quote]\s*,\s*(?!.*auth).*function
OpenRoute(prefix) ==
    RegExp(Cat(App \o <<Cap(1, OneOf(Methods)), Lit("("), WS, Quote>> \o prefix \o
               <<Plus(NoneOf(Quotes)), Quote, WS, Lit(","), WS,
                 NotAhead(Cat(<<DotStar, OneOf(AuthWords)>>)), DotStar, Lit("function")>>))

authorizationPatterns == <<
    [type |-> "Absence de verification d'autorisation", severity |-> "MEDIUM",
     pattern |-> OpenRoute(<<>>)],
    [type |-> "API ouverte", severity |-> "HIGH",
     pattern |-> OpenRoute(<<Lit("/"), Lit("api"), Lit("/")>>)],
    [type |-> "Autorisations insuffisantes", severity |-> "INFO",
     pattern |-> RegExp(Cat(<<WordBoundary(WordLexemes),
                   Cap(1, Alt(<<Lit("isAuth"), Lit("isAuthenticated"), Lit("authenticate"),
                                Lit("requireAuth")>>)),
                   WordBoundary(WordLexemes), WS, Lit("("), Star(NoneOf({")"})), Lit(")")>>))],
    [type |-> "Autorisations de base", severity |-> "LOW",
     pattern |-> RegExp(Cat(<<Lit("req"), Lit("."),
                   Cap(1, Alt(<<Lit("user"), Lit("currentUser")>>)), Lit("."), Lit("role"),
                   WS, Lit("==="), WS, Quote, Cap(2, Alt(<<Lit("admin"), Lit("superuser")>>)),
                   Quote>>))] >>

recommendedPackages == <<"bcrypt", "argon2", "jsonwebtoken", "passport", "express-jwt",
                         "helmet", "express-rate-limit", "express-validator",
                         "accesscontrol", "casl">>

scanAuthentication(fs, mf) ==
    LET authIssues == TypedIssues(fs, authPatterns)
        authorizationIssues == TypedIssues(fs, authorizationPatterns)
    IN  [auth |-> authIssues,
         authorization |-> authorizationIssues,
         packages |-> [installed |-> InstalledOf(mf, recommendedPackages),
                       recommended |-> MissingOf(mf, recommendedPackages)],
         total |-> Len(authIssues) + Len(authorizationIssues)]

(***************************************************************************)
(* scanner/inputValidationScanner                                          *)
(***************************************************************************)
\* [a-zA-Z0-9_]+ is one word lexeme
Word == OneOf(WordLexemes)

inputValidationPatterns == <<
    [type |-> "Absence de validation", severity |-> "MEDIUM",
     pattern |-> RegExp(Cat(ReqInput(1) \o <<Lit("."), Cap(2, Word)>>))],
    [type |-> "Entree utilisateur directe", severity |-> "CRITICAL",
     pattern |-> RegExp(Cat(<<Cap(1, Alt(<<Lit("eval"), Lit("Function"), Lit("setTimeout"),
                                           Lit("setInterval")>>)),
                              WS, Lit("("), WS>> \o ReqInput(2)))],
    [type |-> "Destructuration sans validation", severity |-> "LOW",
     pattern |-> RegExp(Cat(<<Lit("const"), WS, Lit("{"), WS, Cap(1, Plus(NoneOf({"}"}))), WS,
                              Lit("}"), WS, Lit("="), WS>> \o ReqInput(2)))],
    [type |-> "Absence de sanitization", severity |-> "HIGH",
     pattern |-> RegExp(Cat(<<Lit("innerHTML"), WS, Lit("="), WS, DotStar>> \o ReqInput(1)))],
    [type |-> "Requete dynamique avec entree utilisateur", severity |-> "HIGH",
     pattern |-> RegExp(Cat(<<Lit("db"), Lit("."), Lit("query"), WS, Lit("("), WS, DotStar>>
                            \o ReqInput(1)))] >>

xssPatterns == <<
    [type |-> "Potentielle vulnerabilite XSS", severity |-> "HIGH",
     pattern |-> RegExp(Alt(<<Cat(<<Lit("innerHTML"), WS, Lit("=")>>),
                              Cat(<<Lit("document"), Lit("."), Lit("write"), WS, Lit("(")>>)>>))],
    [type |-> "Potentielle vulnerabilite XSS avec entrees utilisateur", severity |-> "MEDIUM",
     pattern |-> RegExp(Cat(<<Lit("dangerouslySetInnerHTML"), WS, Lit("="), WS, Lit("{")>>))],
    [type |-> "Absence d'echappement HTML", severity |-> "MEDIUM",
     pattern |-> RegExp(Cat(<<Lit("."), Lit("send"), WS, Lit("("), WS, DotStar>>
                            \o ReqInput(1)))] >>

typeValidationPatterns == <<
    [type |-> "Conversion de type non securisee", severity |-> "LOW",
     pattern |-> RegExp(Cat(<<Lit("parseInt"), WS, Lit("("), WS>> \o ReqInput(1)))],
    [type |-> "Verification de type faible", severity |-> "LOW",
     pattern |-> RegExp(Alt(<<Cat(<<Lit("=="), WS, Lit("null")>>),
                              Cat(<<Lit("null"), WS, Lit("==")>>)>>))] >>

recommendedValidationPackages == <<"express-validator", "joi", "yup", "ajv", "validator",
                                   "zod", "sanitize-html", "dompurify", "xss">>

scanInputValidation(fs, mf) ==
    LET validationIssues == TypedIssues(fs, inputValidationPatterns)
        xssIssues == TypedIssues(fs, xssPatterns)
        typeIssues == TypedIssues(fs, typeValidationPatterns)
    IN  [validation |-> validationIssues,
         xss |-> xssIssues,
         typeErrors |-> typeIssues,
         packages |-> [installed |-> InstalledOf(mf, recommendedValidationPackages),
                       recommended |-> MissingOf(mf, recommendedValidationPackages)],
         total |-> Len(validationIssues) + Len(xssIssues) + Len(typeIssues)]

(***************************************************************************)
(* scanner/middlewareScanner                                               *)
(***************************************************************************)
securityMiddlewares == <<
    [name |-> "helmet", priority |-> "HIGH", npm |-> "helmet"],
    [name |-> "cors", priority |-> "HIGH", npm |-> "cors"],
    [name |-> "express-rate-limit", priority |-> "HIGH", npm |-> "express-rate-limit"],
    [name |-> "csurf", priority |-> "HIGH", npm |-> "csurf"],
    [name |-> "express-validator", priority |-> "HIGH", npm |-> "express-validator"],
    [name |-> "xss-clean", priority |-> "HIGH", npm |-> "xss-clean"],
    [name |-> "hpp", priority |-> "MEDIUM", npm |-> "hpp"],
    [name |-> "sanitize-html", priority |-> "MEDIUM", npm |-> "sanitize-html"],
    [name |-> "cookie-parser", priority |-> "MEDIUM", npm |-> "cookie-parser"],
    [name |-> "express-session", priority |-> "MEDIUM", npm |-> "express-session"],
    [name |-> "express-mongo-sanitize", priority |-> "MEDIUM",
     npm |-> "express-mongo-sanitize"],
    [name |-> "content-security-policy", priority |-> "MEDIUM", npm |-> "helmet ou csp"],
    [name |-> "compression", priority |-> "LOW", npm |-> "compression"],
    [name |-> "express-fileupload", priority |-> "LOW", npm |-> "express-fileupload"],
    [name |-> "timeout", priority |-> "LOW", npm |-> "connect-timeout"] >>

\* require\([quote]pkg[quote]
RequireOpen(pkg) == <<Lit("require"), Lit("("), QuoteSD, Lit(pkg), QuoteSD>>

\* app\.use\(\s*(word|require\([quote]pkg[quote]\))\s*\(
AppUse(words, pkg) ==
    RegExp(Cat(App \o <<Lit("use"), Lit("("), WS,
                        Cap(1, Alt(<<OneOf(words), Cat(RequireOpen(pkg) \o <<Lit(")")>>)>>)),
                        WS, Lit("(")>>))

middlewarePatterns == <<
    [name |-> "helmet", pattern |-> AppUse({"helmet"}, "helmet")],
    [name |-> "cors", pattern |-> AppUse({"cors"}, "cors")],
    [name |-> "express-rate-limit",
     pattern |-> RegExp(Alt(<<Cat(<<Cap(1, OneOf({"rateLimit", "rateLimiter", "limiter"})),
                                    WS, Lit("="), WS>> \o RequireOpen("express-rate-limit")),
                              Cat(App \o <<Lit("use"), Lit("("), WS, Lit("rateLimit")>>)>>))],
    [name |-> "csurf", pattern |-> AppUse({"csrf", "csurf"}, "csurf")],
    [name |-> "express-validator",
     pattern |-> RegExp(Alt(<<Cat(RequireOpen("express-validator")), Lit("check"),
                              Lit("body"), Lit("validationResult")>>))],
    [name |-> "xss-clean", pattern |-> AppUse({"xss"}, "xss-clean")],
    [name |-> "hpp", pattern |-> AppUse({"hpp"}, "hpp")],
    [name |-> "sanitize-html",
     pattern |-> RegExp(Alt(<<Cat(RequireOpen("sanitize-html")), Lit("sanitizeHtml")>>))],
    [name |-> "express-mongo-sanitize",
     pattern |-> AppUse({"mongoSanitize"}, "express-mongo-sanitize")],
    [name |-> "content-security-policy",
     pattern |-> RegExp(Cat(<<Lit("helmet"), Lit("("), Star(NoneOf({")"})), Lit("{"), WS,
                              Lit("contentSecurityPolicy")>>))],
    [name |-> "compression", pattern |-> AppUse({"compression"}, "compression")] >>

middlewareConfigPatterns == <<
    [name |-> "CORS Permissif", severity |-> "HIGH",
     pattern |-> RegExp(Cat(<<Lit("cors"), Lit("("), WS, Lit("{"), WS, Lit("origin"), WS,
                              Lit(":"), WS, Quote, Lit("*"), Quote>>))],
    [name |-> "Rate Limit Faible", severity |-> "MEDIUM",
     pattern |-> RegExp(Cat(<<Lit("rateLimit"), Lit("("), WS, Lit("{"), WS,
                              Opt(Cat(<<Star(NoneOf({"}"})), WS, Lit(","), WS>>)),
                              Lit("max"), WS, Lit(":"), WS, Cap(1, Plus(OneOf(Digits)))>>))],
    [name |-> "Helmet sans CSP", severity |-> "MEDIUM",
     pattern |-> RegExp(Cat(<<Lit("helmet"), Lit("("), WS, Lit("{"), WS,
                              Lit("contentSecurityPolicy"), WS, Lit(":"), WS,
                              Lit("false")>>))] >>

\* /session\(\s*\{/i
SessionPattern == RegExp(Cat(<<Lit("session"), Lit("("), WS, Lit("{")>>))

\* The middlewares of the table the manifest loop puts in installedPackages
\* (declared = TRUE) or in missingPackages (declared = FALSE).
MiddlewaresWhere(mf, declared) ==
    IF IsNull(mf) THEN <<>>
    ELSE Flat([k \in 1..Len(securityMiddlewares) |->
                 IF (securityMiddlewares[k].npm \in Val(mf)) = declared
                   THEN <<securityMiddlewares[k]>> ELSE <<>>])

\* list.filter(m => m.priority === priority)
WithPriority(list, priority) ==
    Flat([k \in 1..Len(list) |-> IF list[k].priority = priority THEN <<list[k]>> ELSE <<>>])

\* list.map(m => m.name)
Names(list) == [k \in 1..Len(list) |-> list[k].name] \o <<>>

\* usedMiddlewares
UsedMiddlewares(fs) ==
    Flat([k \in 1..Len(middlewarePatterns) |->
            LET found == findFilesWithPattern(fs, middlewarePatterns[k].pattern)
            IN  IF Len(found) > 0
                  THEN <<[name |-> middlewarePatterns[k].name,
                          files |-> [j \in 1..Len(found) |->
                                       [file |-> found[j].file, line |-> found[j].line]]
                                    \o <<>>]>>
                  ELSE <<>>])

\* The analysis of the first session( record; it reads context.includes,
\* which throws a TypeError when the record has no context.
SessionAnalysis(fs, installed) ==
    IF \A k \in 1..Len(installed) : installed[k].name # "express-session" THEN Returned(Null)
    ELSE LET found == findFilesWithPattern(fs, SessionPattern)
         IN  IF Len(found) = 0 THEN Returned(Null)
             ELSE IF IsNull(found[1].context) THEN Threw("TypeError")
             ELSE LET context == Val(found[1].context)
                  IN  Returned(Some(
                        [file |-> found[1].file, line |-> found[1].line,
                         issues |->
                           (IF Includes(context, <<"httpOnly", ":", " ", "true">>) THEN <<>>
                            ELSE <<"httpOnly manquant">>) \o
                           (IF Includes(context, <<"secure", ":", " ", "true">>) THEN <<>>
                            ELSE <<"secure manquant">>) \o
                           (IF Includes(context, <<"sameSite">>) THEN <<>>
                            ELSE <<"sameSite manquant">>)]))

scanMiddlewares(fs, mf) ==
    LET installedPackages == MiddlewaresWhere(mf, TRUE)
        missingPackages == MiddlewaresWhere(mf, FALSE)
        configurationIssues == Flat([k \in 1..Len(middlewareConfigPatterns) |->
                                       IssuesOf(fs, middlewareConfigPatterns[k]) \o <<>>])
        used == UsedMiddlewares(fs)
        sessionAnalysis == SessionAnalysis(fs, installedPackages)
        high == WithPriority(missingPackages, "HIGH")
        medium == WithPriority(missingPackages, "MEDIUM")
    IN  IF sessionAnalysis.status = "threw" THEN sessionAnalysis
        ELSE Returned(
               [installed |-> [packages |-> Names(installedPackages),
                               count |-> Len(installedPackages)],
                missing |-> [packages |-> Names(high), count |-> Len(high)],
                recommended |-> [packages |-> Names(medium), count |-> Len(medium)],
                used |-> [middlewares |-> used, count |-> Len(used)],
                configurationIssues |-> configurationIssues,
                sessionAnalysis |-> sessionAnalysis.value,
                securityScore |->
                  middlewaresSecurityScore(
                    [HIGH |-> Len(WithPriority(installedPackages, "HIGH")),
                     MEDIUM |-> Len(WithPriority(installedPackages, "MEDIUM"))],
                    [HIGH |-> Len(high), MEDIUM |-> Len(medium)],
                    Len(configurationIssues))])

(***************************************************************************)
(* The aggregators that report installed and missing packages, each run    *)
(* on its own over a project.                                              *)
(***************************************************************************)
\* The parts of the state a single aggregator call neither reads nor writes.
ScanIdle ==
    /\ rule = NoRule /\ matches = <<>> /\ results = NoResults /\ score = 0
    /\ counts = NoCounts /\ local = 0 /\ cors = NoDomain /\ rateLimit = NoDomain
ScanUnchanged ==
    UNCHANGED <<files, manifest, rule, matches, results, score, counts, local, cors,
                rateLimit, tools, argv, exit>>

\* What domain holds after one aggregator call.
Outcome(scan, out) == [scan |-> scan, status |-> out.status, out |-> out]

SessionOpenLine == <<"app", ".", "use", "(", "session", "(">>
PackageLines == {
    <<"jwt", ".", "decode", "(", "x", ")">>,
    <<"req", ".", "body", ".", "name">>,
    <<"app", ".", "use", "(", "helmet", "(", ")", ")">>,
    <<"cors", "(", "{", "origin", ":", " ", "'", "*", "'", "}", ")">>,
    <<"app", ".", "use", "(", "session", "(", "{", "secure", ":", " ", "true", "}", ")", ")">>,
    SessionOpenLine,
    <<"{", "secure", ":", " ", "true", "}", ")", ")">>}

\* The manifest that declares every HIGH-priority middleware and two MEDIUM ones.
HardenedManifest ==
    Some({"helmet", "cors", "express-rate-limit", "csurf", "express-validator",
          "xss-clean", "hpp", "sanitize-html"})

PackageManifests ==
    {Null, Some({}), Some({"helmet", "express-session"}), Some({"express-validator", "bcrypt"}),
     HardenedManifest}

InitPackages ==
    /\ files \in LineCorpora(PackageLines, 1, MaxLines)
    /\ manifest \in PackageManifests
    /\ ScanIdle
    /\ pc = "start"
    /\ RunIdle

\* const auth = await scanAuthentication(absolutePath)
ScanAuthentication ==
    /\ pc = "start"
    /\ domain' = Outcome("auth", Returned(scanAuthentication(files, manifest)))
    /\ pc' = "done"
    /\ ScanUnchanged

\* const inputValidation = await scanInputValidation(absolutePath)
ScanInputValidation ==
    /\ pc = "start"
    /\ domain' = Outcome("inputValidation", Returned(scanInputValidation(files, manifest)))
    /\ pc' = "done"
    /\ ScanUnchanged

\* const middlewares = await scanMiddlewares(absolutePath)
ScanMiddlewares ==
    /\ pc = "start"
    /\ domain' = Outcome("middlewares", scanMiddlewares(files, manifest))
    /\ pc' = "done"
    /\ ScanUnchanged

NextPackages == ScanAuthentication \/ ScanInputValidation \/ ScanMiddlewares
SpecPackages == InitPackages /\ [][NextPackages]_vars

\* The installed list and the missing / recommended list a result reports,
\* the middlewares' two priority lists taken together.
C11_Installed ==
    IF domain.scan = "middlewares" THEN domain.out.value.installed.packages
    ELSE domain.out.value.packages.installed
C11_Missing ==
    IF domain.scan = "middlewares"
      THEN domain.out.value.missing.packages \o domain.out.value.recommended.packages
      ELSE domain.out.value.packages.recommended
C11_FullList ==
    IF domain.scan = "auth" THEN recommendedPackages
    ELSE IF domain.scan = "inputValidation" THEN recommendedValidationPackages
    ELSE Names(WithPriority(securityMiddlewares, "HIGH"))
         \o Names(WithPriority(securityMiddlewares, "MEDIUM"))

\* C11: without a manifest each of the three aggregators returns, without
\* raising, an empty installed list and a missing / recommended list equal
\* to the full recommended list of its domain.
C11_NoManifestAllMissing ==
    (pc = "done" /\ manifest = Null) =>
        /\ domain.status = "returned"
        /\ C11_Installed = <<>>
        /\ C11_Missing = C11_FullList

(***************************************************************************)
(* scanner/secretScanner                                                   *)
(***************************************************************************)
\* [_-]? between the words of a key name
Sep == Opt(OneOf({"_", "-"}))
\* word[_-]?word...
KeyName(words) ==
    Cat(Flat([k \in 1..Len(words) |->
                IF k = 1 THEN <<Lit(words[k])>> ELSE <<Sep, Lit(words[k])>>]))
\* S{m,}
AtLeast(S, m) == Cat(<<Between(S, m, m), Star(OneOf(S))>>)
\* [quote]\s*[=:]\s*[quote]
AssignQuoted == <<QuoteSD, WS, OneOf({"=", ":"}), WS, QuoteSD>>
\* [a-zA-Z0-9_\-]
KeyChars == WordLexemes \cup {"-"}
\* (['"])?(name|...)['"]\s*[=:]\s*['"](value)['"]
Assigned(names, value) ==
    RegExp(Cat(<<Opt(Cap(1, QuoteSD)), Cap(2, Alt(names))>> \o AssignQuoted \o
               <<Cap(3, value), QuoteSD>>))
\* (['"])?name['"]\s*[=:]\s*['"](value)['"]
AssignedTo(name, value) ==
    RegExp(Cat(<<Opt(Cap(1, QuoteSD)), name>> \o AssignQuoted \o <<Cap(2, value), QuoteSD>>))

secretPatterns == <<
    [type |-> "API Key", severity |-> "HIGH", isEnvVar |-> FALSE,
     pattern |-> Assigned(<<KeyName(<<"api", "key">>), KeyName(<<"auth", "key">>),
                            KeyName(<<"access", "key">>)>>, AtLeast(KeyChars, 10))],
    [type |-> "Secret Key", severity |-> "HIGH", isEnvVar |-> FALSE,
     pattern |-> Assigned(<<KeyName(<<"secret", "key">>), KeyName(<<"client", "secret">>)>>,
                          AtLeast(KeyChars, 10))],
    [type |-> "Password", severity |-> "HIGH", isEnvVar |-> FALSE,
     pattern |-> Assigned(<<Lit("password"), Lit("passwd"), Lit("pwd")>>,
                          AtLeast(SourceLexemes \ {"'", DoubleQuote}, 4))],
    [type |-> "Token", severity |-> "HIGH", isEnvVar |-> FALSE,
     pattern |-> Assigned(<<Lit("token"), Lit("jwt"), KeyName(<<"auth", "token">>)>>,
                          AtLeast(KeyChars \cup {".", "+", "="}, 10))],
    [type |-> "AWS Access Key", severity |-> "CRITICAL", isEnvVar |-> FALSE,
     pattern |-> AssignedTo(KeyName(<<"aws", "access", "key", "id">>),
                            Between(Alnum, 20, 20))],
    [type |-> "AWS Secret Key", severity |-> "CRITICAL", isEnvVar |-> FALSE,
     pattern |-> AssignedTo(KeyName(<<"aws", "secret", "access", "key">>),
                            Between(Alnum \cup {"/", "+"}, 40, 40))],
    [type |-> "Google API Key", severity |-> "CRITICAL", isEnvVar |-> FALSE,
     pattern |-> RegExp(Cat(<<Opt(Cap(1, QuoteSD)), Lit("AIza"), Between(KeyChars, 35, 35),
                              QuoteSD>>))],
    [type |-> "Private Key", severity |-> "CRITICAL", isEnvVar |-> FALSE,
     pattern |-> RegExp(Cat(<<Lit("-----"), Lit("BEGIN"), WS1, Lit("PRIVATE"), WS1, Lit("KEY"),
                              Opt(Cap(1, Cat(<<Lit(" "), Lit("BLOCK")>>))), Lit("-----")>>))],
    [type |-> "Firebase Key", severity |-> "HIGH", isEnvVar |-> FALSE,
     pattern |-> AssignedTo(KeyName(<<"firebase", "api", "key">>), AtLeast(KeyChars, 10))],
    [type |-> "GitHub Token", severity |-> "HIGH", isEnvVar |-> FALSE,
     pattern |-> AssignedTo(KeyName(<<"github", "token">>), AtLeast(KeyChars, 10))],
    [type |-> "MongoDB Connection String", severity |-> "CRITICAL", isEnvVar |-> FALSE,
     pattern |-> RegExp(Cat(<<Lit("mongodb"), Opt(Cap(1, Cat(<<Lit("+"), Lit("srv")>>))),
                              Lit(":"), Lit("/"), Lit("/"), Plus(NoneOf({":"})), Lit(":"),
                              Plus(NoneOf({"@"})), Lit("@"), Plus(NoneOf({"/"})), Lit("/"),
                              Plus(OneOf(KeyChars))>>))],
    [type |-> "Environment Variable", severity |-> "INFO", isEnvVar |-> TRUE,
     pattern |-> RegExp(Cat(<<Lit("process"), Lit("."), Lit("env"), Lit("."),
                              Cap(1, Plus(Word))>>))] >>

excludedDirs == {"node_modules", ".git", "dist", "build", "public"}
fileExtensions == {"js", "ts", "jsx", "tsx", "json", "env", "config", "yml", "yaml"}

\* The segments of a relative path, and the extension of its last segment
\* ("" for a name that has none or is only a dot name).
Segments(path) ==
    CASE path = "lib/dist/b.js" -> <<"lib", "dist", "b.js">>
      [] path = "node_modules/m.js" -> <<"node_modules", "m.js">>
      [] OTHER -> <<path>>
Extension(path) ==
    CASE path \in {"a.js", "b.js", "lib/dist/b.js", "node_modules/m.js"} -> "js"
      [] path = "config.json" -> "json"
      [] OTHER -> ""
\* Does the last segment start with .env ?
IsEnvName(path) == path \in {".env", ".env.local"}

\* glob.sync of **/*.{ext,...}: * does not match a name that starts with a dot.
FilesWithExtension(fs, exts) ==
    Flat([k \in 1..Len(fs) |->
            IF Extension(fs[k].path) \in exts /\ ~IsEnvName(fs[k].path)
              THEN <<fs[k]>> ELSE <<>>])
\* glob.sync of **/.env*
EnvFiles(fs) == Flat([k \in 1..Len(fs) |-> IF IsEnvName(fs[k].path) THEN <<fs[k]>> ELSE <<>>])

\* excludedDirs.some(dir => result.file.includes('/' + dir + '/'))
InExcludedDir(path) ==
    \E k \in 2..(Len(Segments(path)) - 1) : Segments(path)[k] \in excludedDirs

\* Set.add for each element of a sequence, in insertion order.
RECURSIVE AddAll(_, _)
AddAll(seen, xs) ==
    IF Len(xs) = 0 THEN seen
    ELSE AddAll(IF \E k \in 1..Len(seen) : seen[k] = Head(xs) THEN seen
                ELSE Append(seen, Head(xs)), Tail(xs))

\* String.prototype.match with a g flag: every match, scanning from lastIndex.
RECURSIVE MatchAllFrom(_, _, _)
MatchAllFrom(s, re, from) ==
    LET starts == {i \in from..(Len(s) + 1) : Len(Run(re, s, i, NoCaps)) > 0}
    IN  IF starts = {} THEN <<>>
        ELSE LET i == CHOOSE x \in starts : \A y \in starts : x <= y
                 e == Run(re, s, i, NoCaps)[1].e
             IN  <<SubSeq(s, i, e - 1)>> \o MatchAllFrom(s, re, IF e = i THEN e + 1 ELSE e)

\* /^([A-Za-z0-9_]+)=/gm
EnvDefinition == Cat(<<LineStart, Cap(1, Plus(Word)), Lit("=")>>)

\* match.replace('=', ''): the text without its first = .
WithoutEquals(text) ==
    IF \A k \in 1..Len(text) : text[k] # "=" THEN text
    ELSE LET k == CHOOSE x \in 1..Len(text) : text[x] = "=" /\ \A y \in 1..(x - 1) : text[y] # "="
         IN  SubSeq(text, 1, k - 1) \o SubSeq(text, k + 1, Len(text))

\* The records of one rule that are not in an excluded directory.
SecretRecords(fs, rl) ==
    LET found == findFilesWithPattern(FilesWithExtension(fs, fileExtensions), rl.pattern)
    IN  Flat([j \in 1..Len(found) |->
                IF InExcludedDir(found[j].file) THEN <<>> ELSE <<found[j]>>])

\* The names the environment rule adds to envVars: match[1] of each record's context.
EnvVarsOf(fs, rl) ==
    LET found == SecretRecords(fs, rl)
    IN  Flat([j \in 1..Len(found) |->
                IF IsNull(found[j].context) THEN <<>>
                ELSE LET match == StringMatch(Val(found[j].context), rl.pattern.re)
                     IN  IF ~IsNull(match) /\ ~IsNull(Val(match).g[1])
                              /\ Len(Val(Val(match).g[1])) > 0
                           THEN <<Val(Val(match).g[1])>> ELSE <<>>])

\* The entries one rule pushes to matches.
SecretsOf(fs, rl) ==
    LET found == SecretRecords(fs, rl)
    IN  [j \in 1..Len(found) |->
           [file |-> found[j].file, line |-> found[j].line, type |-> rl.type,
            severity |-> rl.severity, context |-> found[j].context]] \o <<>>

\* The names read from the .env files: the definitions found in the context
\* of each record the matcher returns for /.+/ .
EnvFileVars(fs) ==
    LET envResults == findFilesWithPattern(EnvFiles(fs), RegExp(Plus(Dot)))
    IN  Flat([j \in 1..Len(envResults) |->
                LET content == IF IsNull(envResults[j].context) THEN <<>>
                               ELSE Val(envResults[j].context)
                    envVarMatches == MatchAllFrom(content, EnvDefinition, 1)
                IN  [k \in 1..Len(envVarMatches) |-> WithoutEquals(envVarMatches[k])] \o <<>>])

scanSecrets(fs) ==
    LET secretMatches ==
            Flat([k \in 1..Len(secretPatterns) |->
                    IF secretPatterns[k].isEnvVar THEN <<>>
                    ELSE SecretsOf(fs, secretPatterns[k])])
        envVars ==
            AddAll(<<>>, Flat([k \in 1..Len(secretPatterns) |->
                                 IF secretPatterns[k].isEnvVar
                                   THEN EnvVarsOf(fs, secretPatterns[k]) ELSE <<>>]))
        envFileVars == AddAll(<<>>, EnvFileVars(fs))
    IN  [secrets |-> secretMatches,
         environmentVariables |->
           [used |-> envVars,
            defined |-> envFileVars,
            missing |-> Flat([k \in 1..Len(envVars) |->
                                IF \E j \in 1..Len(envFileVars) : envFileVars[j] = envVars[k]
                                  THEN <<>> ELSE <<envVars[k]>>])]]

(***************************************************************************)
(* scanSecrets on its own over a project with source and .env files.       *)
(***************************************************************************)
SecretPaths == <<".env", "a.js", "b.js", "lib/dist/b.js", "node_modules/m.js">>
SecretLines == {
    <<"process", ".", "env", ".", "PORT">>,
    <<"process", ".", "env", ".", "KEY">>,
    <<"PORT", "=", "1">>,
    <<"KEY", "=", "1">>,
    <<"'", "password", "'", ":", " ", "'", "U", "s", "e", "r", "'">>}

\* The corpora that give some of the paths P[k], P[k+1], ... a content of
\* one or more lines of L, budget lines at most altogether.
RECURSIVE PathCorpora(_, _, _, _)
PathCorpora(P, L, k, budget) ==
    IF k > Len(P) THEN {<<>>}
    ELSE PathCorpora(P, L, k + 1, budget) \cup
         UNION {{<<[path |-> P[k], content |-> JoinLines(ls), readable |-> TRUE]>> \o rest :
                    rest \in PathCorpora(P, L, k + 1, budget - Len(ls))} :
                ls \in {t \in LineSeqs(L, budget) : Len(t) > 0}}

InitSecrets ==
    /\ files \in PathCorpora(SecretPaths, SecretLines, 1, MaxLines)
    /\ manifest = Null
    /\ ScanIdle
    /\ pc = "start"
    /\ RunIdle

\* const secrets = await scanSecrets(absolutePath)
ScanSecrets ==
    /\ pc = "start"
    /\ domain' = Outcome("secrets", Returned(scanSecrets(files)))
    /\ pc' = "done"
    /\ ScanUnchanged

NextSecrets == ScanSecrets
SpecSecrets == InitSecrets /\ [][NextSecrets]_vars

\* The variable names the project can mention.
C12_Names == {<<"PORT">>, <<"KEY">>}
\* process.env.NAME occurs in a file scanSecrets scans.
C12_Referenced(name) ==
    \E k \in 1..Len(files) :
        /\ Extension(files[k].path) \in fileExtensions
        /\ ~IsEnvName(files[k].path)
        /\ ~InExcludedDir(files[k].path)
        /\ Includes(files[k].content, <<"process", ".", "env", ".">> \o name)
\* Some line of some .env file starts with NAME= .
C12_Defined(name) ==
    \E k \in 1..Len(files) :
        /\ IsEnvName(files[k].path)
        /\ \E j \in 1..Len(SplitLines(files[k].content)) :
              LET line == SplitLines(files[k].content)[j]
              IN  Len(line) >= 2 /\ SubSeq(line, 1, 2) = name \o <<"=">>
C12_IsMissing(name) ==
    \E k \in 1..Len(domain.out.value.environmentVariables.missing) :
        domain.out.value.environmentVariables.missing[k] = name

\* C12: a name is in environmentVariables.missing exactly when some scanned
\* file references it as process.env.NAME and no .env file defines it on any
\* line; a process.env reference is never an entry of secrets.
C12_MissingIffReferencedAndUndefined ==
    (pc = "done") =>
        /\ \A name \in C12_Names :
              C12_IsMissing(name) <=> (C12_Referenced(name) /\ ~C12_Defined(name))
        /\ \A k \in 1..Len(domain.out.value.secrets) :
              domain.out.value.secrets[k].type # "Environment Variable"

(***************************************************************************)
(* scanner/sqlInjectionScanner                                             *)
(***************************************************************************)
\* (con|connection|db|database|sql)\.query\(\s*[quote].*?
QueryOpen ==
    <<Cap(1, Alt(<<Lit("con"), Lit("connection"), Lit("db"), Lit("database"), Lit("sql")>>)),
      Lit("."), Lit("query"), Lit("("), WS, Quote, LazyStar(SourceLexemes \ {NL})>>
\* \.(a|b)\(\s*\{\s*
MethodOpen(names) == <<Lit("."), Cap(1, OneOf(names)), Lit("("), WS, Lit("{"), WS>>
\* [^:}]+\s*:\s*req\.(body|params|query)
FieldFromInput == <<Plus(NoneOf({":", "}"})), WS, Lit(":"), WS>> \o ReqInput(2)

sqlInjectionPatterns == <<
    [type |-> "Requete SQL brute", severity |-> "MEDIUM",
     pattern |-> RegExp(Cat(<<WordBoundary(WordLexemes),
                   Cap(1, OneOf({"SELECT", "INSERT", "UPDATE", "DELETE", "CREATE", "ALTER",
                                 "DROP"})),
                   WS1, DotStar, WS1, Lit("FROM"), WS1>>))],
    [type |-> "Concatenation SQL", severity |-> "HIGH",
     pattern |-> RegExp(Cat(QueryOpen \o <<Lit("$"), Lit("{"),
                                           LazyStar(SourceLexemes \ {NL}), Lit("}")>>))],
    [type |-> "Concatenation SQL", severity |-> "HIGH",
     pattern |-> RegExp(Cat(QueryOpen \o <<WS, Lit("+"), WS>>))],
    [type |-> "Raw queries sans validation", severity |-> "MEDIUM",
     pattern |-> RegExp(Cat(<<WordBoundary(WordLexemes), Lit("raw"), WS, Lit("("), WS, Quote,
                              LazyStar(SourceLexemes \ {NL}), Quote>>))],
    [type |-> "Sequelize Query Raw", severity |-> "LOW",
     pattern |-> RegExp(Cat(<<Lit("sequelize"), Lit("."), Lit("query"), Lit("("), WS,
                              Quote>>))] >>

noSqlInjectionPatterns == <<
    [type |-> "MongoDB Find avec filtre non valide", severity |-> "HIGH",
     pattern |-> RegExp(Cat(MethodOpen({"find", "findOne"}) \o
                   <<Cap(2, Alt(<<Cat(<<Lit("$"), Lit("where")>>),
                                  Cat(<<Dot, Dot>>)>>)), WS, Lit(":")>>))],
    [type |-> "MongoDB Find avec variable dynamique", severity |-> "MEDIUM",
     pattern |-> RegExp(Cat(MethodOpen({"find", "findOne"}) \o FieldFromInput))],
    [type |-> "MongoDB Update avec positionnement dynamique", severity |-> "MEDIUM",
     pattern |-> RegExp(Cat(MethodOpen({"updateOne", "updateMany"}) \o FieldFromInput))],
    [type |-> "MongoDB Update avec operateur $set dynamique", severity |-> "HIGH",
     pattern |-> RegExp(Cat(<<Lit("."), Cap(1, OneOf({"updateOne", "updateMany"})), Lit("("),
                              Star(NoneOf({"{"})), Lit(","), WS, Lit("{"), WS, Lit("$"),
                              Lit("set"), WS, Lit(":"), WS>> \o ReqInput(2)))],
    [type |-> "Mongoose unsafe queries", severity |-> "MEDIUM",
     pattern |-> RegExp(Cat(<<Lit("Model"), WS, Lit("."), WS,
                              Cap(1, OneOf({"find", "findOne", "findById"})), WS, Lit("("),
                              WS>> \o ReqInput(2)))] >>

sqlRecommendedPackages == <<"express-validator", "joi", "yup", "validator", "sequelize",
                            "mongoose", "mysql2", "pg", "sanitize-html">>

scanSqlInjections(fs) ==
    LET sqlVulnerabilities == TypedIssues(fs, sqlInjectionPatterns)
        noSqlVulnerabilities == TypedIssues(fs, noSqlInjectionPatterns)
    IN  [sql |-> sqlVulnerabilities,
         noSql |-> noSqlVulnerabilities,
         recommendedPackages |-> sqlRecommendedPackages,
         total |-> Len(sqlVulnerabilities) + Len(noSqlVulnerabilities)]

(***************************************************************************)
(* The cookie scanner                                                      *)
(***************************************************************************)
\* cookie\s*\(\s*[quote][^quote]+[quote]\s*,\s*[^,]+\s*,\s*\{\s*
CookieOpen ==
    <<Lit("cookie"), WS, Lit("("), WS, Quote, Plus(NoneOf(Quotes)), Quote, WS, Lit(","), WS,
      Plus(NoneOf({","})), WS, Lit(","), WS, Lit("{"), WS>>
\* cookie(...{\s*(?!.*option:.*true).*\}
CookieWithout(option) ==
    RegExp(Cat(CookieOpen \o
               <<NotAhead(Cat(<<DotStar, Lit(option), Lit(":"), DotStar, Lit("true")>>)),
                 DotStar, Lit("}")>>))
TokenWords == {"token", "authToken", "csrfToken"}
\* storage\.setItem\(\s*[quote][^quote]*token[^quote]*[quote]
StoresToken(storage) ==
    RegExp(Cat(<<Lit(storage), Lit("."), Lit("setItem"), Lit("("), WS, Quote,
                 Star(NoneOf(Quotes)), OneOf(TokenWords), Star(NoneOf(Quotes)), Quote>>))

cookiePatterns == <<
    [type |-> "Cookie sans httpOnly", severity |-> "HIGH",
     pattern |-> CookieWithout("httpOnly")],
    [type |-> "Cookie sans secure", severity |-> "HIGH", pattern |-> CookieWithout("secure")],
    [type |-> "Cookie sans sameSite", severity |-> "MEDIUM",
     pattern |-> RegExp(Cat(CookieOpen \o
                   <<NotAhead(Cat(<<DotStar, Lit("sameSite")>>)), DotStar, Lit("}")>>))],
    [type |-> "Cookie avec expiration longue", severity |-> "MEDIUM",
     pattern |-> RegExp(Cat(CookieOpen \o
                   <<Lit("maxAge"), WS, Lit(":"), WS, Cap(1, AtLeast(Digits, 8))>>))],
    [type |-> "Cookie avec domain trop permissif", severity |-> "MEDIUM",
     pattern |-> RegExp(Cat(CookieOpen \o
                   <<Lit("domain"), WS, Lit(":"), WS, Quote, Lit("."), Plus(NoneOf(Quotes)),
                     Quote>>))],
    [type |-> "Cookie session sans configuration securisee", severity |-> "HIGH",
     pattern |-> RegExp(Cat(<<Lit("session"), Lit("("), WS, Lit("{"), WS,
                   NotAhead(Cat(<<DotStar, Lit("cookie"), Lit(":"), DotStar, Lit("httpOnly"),
                                  Lit(":"), DotStar, Lit("true")>>)),
                   DotStar, Lit("}"), WS, Lit(")")>>))] >>

cookieManagementPatterns == <<
    [type |-> "Utilisation de document.cookie", severity |-> "MEDIUM",
     pattern |-> RegExp(Cat(<<Lit("document"), Lit("."), Lit("cookie"), WS, Lit("=")>>))],
    [type |-> "Cookie localStorage", severity |-> "HIGH",
     pattern |-> StoresToken("localStorage")],
    [type |-> "Stockage sessionStorage", severity |-> "MEDIUM",
     pattern |-> StoresToken("sessionStorage")] >>

cookieManagementPackages == <<"cookie-parser", "cookie-session", "express-session",
                              "js-cookie", "universal-cookie">>

\* results[0].context of the first record of a configuration pattern, when
\* the package is installed and the pattern is found; null otherwise.
ConfigurationContext(fs, mf, pkg, re) ==
    IF ~Declares(mf, pkg) THEN Null
    ELSE LET found == findFilesWithPattern(fs, RegExp(re))
         IN  IF Len(found) > 0 THEN found[1].context ELSE Null

scanCookies(fs, mf) ==
    LET cookieIssues == TypedIssues(fs, cookiePatterns)
        cookieManagementIssues == TypedIssues(fs, cookieManagementPatterns)
    IN  [cookies |-> cookieIssues,
         management |-> cookieManagementIssues,
         packages |-> [installed |-> InstalledOf(mf, cookieManagementPackages)],
         configurations |->
           [cookieParser |->
              ConfigurationContext(fs, mf, "cookie-parser",
                  Cat(App \o <<Lit("use"), Lit("("), WS, Lit("cookieParser"), Lit("(")>>)),
            session |->
              ConfigurationContext(fs, mf, "express-session",
                  Cat(App \o <<Lit("use"), Lit("("), WS, Lit("session"), Lit("("), WS,
                               Lit("{")>>))],
         total |-> Len(cookieIssues) + Len(cookieManagementIssues)]

(***************************************************************************)
(* The CSRF scanner                                                        *)
(***************************************************************************)
\* (?!.*csrf)
NoCsrfAhead == NotAhead(Cat(<<DotStar, OneOf(CsrfWords)>>))
\* app\.method\(\s*[quote][^quote]+[quote]\s*,\s*(?!.*csrf)
RouteWithoutCsrf(method) ==
    RegExp(Cat(App \o <<Lit(method), Lit("("), WS, Quote, Plus(NoneOf(Quotes)), Quote, WS,
                        Lit(","), WS, NoCsrfAhead>>))

csrfPatterns == <<
    [type |-> "Absence de middleware CSRF", severity |-> "HIGH",
     pattern |-> RegExp(Cat(App \o <<Lit("use"), Lit("("), WS, NoCsrfAhead>>))],
    [type |-> "Routes POST sans protection CSRF", severity |-> "HIGH",
     pattern |-> RouteWithoutCsrf("post")],
    [type |-> "Routes PUT sans protection CSRF", severity |-> "HIGH",
     pattern |-> RouteWithoutCsrf("put")],
    [type |-> "Routes DELETE sans protection CSRF", severity |-> "HIGH",
     pattern |-> RouteWithoutCsrf("delete")],
    [type |-> "Utilisation de fetch sans CSRF token", severity |-> "MEDIUM",
     pattern |-> RegExp(Cat(<<Lit("fetch"), Lit("("), WS, Quote, Plus(NoneOf(Quotes)), Quote,
                              WS, Lit(","), WS, Lit("{"), WS, Lit("method"), WS, Lit(":"), WS,
                              Quote, Cap(1, OneOf({"POST", "PUT", "DELETE", "PATCH"})),
                              Quote>>))],
    [type |-> "Utilisation d'axios sans CSRF token", severity |-> "MEDIUM",
     pattern |-> RegExp(Cat(<<Lit("axios"), Lit("."),
                              Cap(1, OneOf({"post", "put", "delete", "patch"})),
                              Lit("(")>>))] >>

csrfBestPractices == <<"csurf", "double-submit-cookie", "SameSite", "X-CSRF-Token">>

\* dependencies && dependencies[pkg], with the initial false when there is no
\* manifest: "false", "undefined" or the declared "version".
InstalledFlag(mf, pkg) ==
    IF IsNull(mf) THEN "false" ELSE IF pkg \in Val(mf) THEN "version" ELSE "undefined"

scanCSRF(fs, mf) ==
    LET csrfIssues == TypedIssues(fs, csrfPatterns)
        helmetResults ==
            findFilesWithPattern(fs, RegExp(Cat(<<Lit("helmet"), Lit("("), WS, Lit("{")>>)))
        csrfTokenUsage ==
            findFilesWithPattern(fs, RegExp(Cap(1, OneOf({"csrfToken", "CSRF_TOKEN"}))))
    IN  [issues |-> csrfIssues,
         protection |->
           [csurfInstalled |-> InstalledFlag(mf, "csurf"),
            helmetInstalled |-> InstalledFlag(mf, "helmet"),
            helmetConfigured |-> Declares(mf, "helmet") /\ Len(helmetResults) > 0,
            csrfTokensUsed |-> Len(csrfTokenUsage) > 0],
         bestPractices |-> csrfBestPractices,
         total |-> Len(csrfIssues)]

(***************************************************************************)
(* scanner/dependencyScanner.  tools says how each external command ends:  *)
(* audit is npm audit's metadata.vulnerabilities, outdated the numbers of  *)
(* HIGH and MEDIUM risk outdated packages, unused and licenses the numbers *)
(* of entries found, each Null when the command fails or is absent; snyk   *)
(* is "absent", "failed" or "ok".  The manifests pin every version and     *)
(* have no scripts.                                                        *)
(***************************************************************************)
\* The object a sub-analysis returns from its catch block.
Failure(error) == [success |-> FALSE, error |-> error, details |-> "err.message"]

npmAuditAnalysis(t) ==
    IF IsNull(t.audit) THEN Failure("npm audit failed or no vulnerabilities found.")
    ELSE [success |-> TRUE, metadata |-> Val(t.audit), vulnerabilities |-> <<>>]

npmOutdatedAnalysis(t) ==
    IF IsNull(t.outdated)
      THEN [success |-> FALSE,
            error |-> "npm outdated failed or no outdated dependencies found.",
            details |-> "err.message", outdated |-> <<>>]
    ELSE [success |-> TRUE, outdated |-> Val(t.outdated),
          count |-> Val(t.outdated).HIGH + Val(t.outdated).MEDIUM]

checkUnusedDependencies(t) ==
    IF IsNull(t.unused)
      THEN [success |-> FALSE, error |-> "Analyse des dependances non utilisees a echoue",
            details |-> "err.message", unused |-> <<>>]
    ELSE [success |-> TRUE, unused |-> Val(t.unused)]

analyzeLicenses(t) ==
    IF IsNull(t.licenses)
      THEN [success |-> FALSE, error |-> "Analyse des licences a echoue",
            details |-> "err.message", licenses |-> <<>>]
    ELSE [success |-> TRUE, licenses |-> Val(t.licenses), count |-> Val(t.licenses)]

snykAnalysis(t) ==
    IF t.snyk = "absent"
      THEN [success |-> FALSE, error |-> "Snyk n'est pas installe ou n'est pas accessible",
            vulnerabilities |-> <<>>]
    ELSE IF t.snyk = "failed"
      THEN [success |-> FALSE, error |-> "Analyse Snyk a echoue",
            details |-> "err.message", vulnerabilities |-> <<>>]
    ELSE [success |-> TRUE, vulnerabilities |-> <<>>,
          summary |-> [critical |-> 0, high |-> 0, medium |-> 0, low |-> 0]]

checkDependencyBestPractices(mf) == [issues |-> <<>>, count |-> 0]

dependencyRecommendations == <<
    "Mettez a jour regulierement vos dependances",
    "Utilisez npm audit ou snyk regulierement",
    "Epinglez les versions exactes des dependances",
    "Utilisez un lockfile (package-lock.json)",
    "Verifiez les licences des dependances",
    "Supprimez les dependances non utilisees">>

\* The section of the result for a sub-analysis that failed:
\* { error: analysis.error }.
ErrorOnly(analysis) == [error |-> analysis.error]

scanDependencies(mf, t) ==
    IF IsNull(mf) THEN [error |-> "package.json non trouve ou invalide"]
    ELSE LET npmAudit == npmAuditAnalysis(t)
             npmOutdated == npmOutdatedAnalysis(t)
             unusedDeps == checkUnusedDependencies(t)
             licenses == analyzeLicenses(t)
             snyk == snykAnalysis(t)
         IN  [audit |-> IF npmAudit.success
                          THEN [vulnerabilities |-> npmAudit.metadata,
                                details |-> npmAudit.vulnerabilities]
                          ELSE ErrorOnly(npmAudit),
              outdated |-> IF npmOutdated.success
                             THEN [count |-> npmOutdated.count,
                                   packages |-> npmOutdated.outdated]
                             ELSE ErrorOnly(npmOutdated),
              unused |-> IF unusedDeps.success
                           THEN [count |-> unusedDeps.unused, packages |-> unusedDeps.unused]
                           ELSE ErrorOnly(unusedDeps),
              licenses |-> IF licenses.success
                             THEN [count |-> licenses.count, list |-> licenses.licenses]
                             ELSE ErrorOnly(licenses),
              snyk |-> IF snyk.success
                         THEN [summary |-> snyk.summary,
                               vulnerabilities |-> snyk.vulnerabilities]
                         ELSE ErrorOnly(snyk),
              bestPractices |-> checkDependencyBestPractices(mf),
              securityScore |-> dependenciesSecurityScore(t.audit, t.outdated),
              recommendations |-> dependencyRecommendations]

(***************************************************************************)
(* scanRateLimit over route declarations whose paths hold characters that  *)
(* mean something in a pattern source.                                     *)
(***************************************************************************)
RoutePaths == {
    <<"/", "login", "/", "(">>,
    <<"/", "login", "/", ")">>,
    <<"/", "login", "/", "(", "x", ")">>,
    <<"/", "login", "/", ".">>,
    <<"/", "login", "/", "x">>}
RouteLines ==
    {RouteLine("post", path, <<>>) : path \in RoutePaths} \cup
    {RouteLine("post", <<"/", "login", "/", "x">>, <<"limiter", ",", " ">>),
     RouteLine("get", <<"/", "users", "/", "(">>, <<>>)}

InitRoutes ==
    /\ files \in LineCorpora(RouteLines, 1, MaxLines)
    /\ manifest \in {Null, Some({"express"})}
    /\ ScanIdle
    /\ pc = "start"
    /\ RunIdle

SpecRoutes == InitRoutes /\ [][NextRateLimit]_vars

\* C20: no regular expression fails to construct at scan time because of
\* the scanned data: scanRateLimit returns a result for every corpus, also
\* when the path of a sensitive POST route holds ( or ) on its own.
C20_ScanRateLimitAlwaysReturns ==
    (pc = "done") => rateLimit.status # "threw"

(***************************************************************************)
(* Each of the ten aggregators run on its own over a project.              *)
(***************************************************************************)
ScanLines == {
    RouteLine("post", LoginPath, <<>>),
    <<"cors", "(", "{", "origin", ":", " ", "'", "*", "'", ",", " ", "credentials", ":",
      " ", "true", "}", ")">>,
    <<"jwt", ".", "sign", "(", "x", ",", " ", "'", "secret", "'", ")", ";">>,
    <<"db", ".", "query", "(", "'", "SELECT", " ", "*", " ", "FROM", " ", "users", "'", " ",
      "+", " ", "req", ".", "body", ".", "name", ")">>,
    <<"res", ".", "cookie", "(", "'", "x", "'", ",", " ", "h", ",", " ", "{", "secure", ":",
      " ", "true", "}", ")">>}

ScanManifests == {Null, Some({"express", "helmet", "cookie-parser"})}

NoToolWorks ==
    [audit |-> Null, outdated |-> Null, unused |-> Null, licenses |-> Null, snyk |-> "absent"]
EveryToolWorks ==
    [audit |-> Some([critical |-> 0, high |-> 1, moderate |-> 0, low |-> 2]),
     outdated |-> Some([HIGH |-> 1, MEDIUM |-> 0]),
     unused |-> Some(0), licenses |-> Some(1), snyk |-> "ok"]

InitScans ==
    /\ files \in LineCorpora(ScanLines, 1, MaxLines)
    /\ manifest \in ScanManifests
    /\ tools \in {NoToolWorks, EveryToolWorks}
    /\ ScanIdle
    /\ pc = "start"
    /\ domain = NoDomain /\ argv = Null /\ exit = Null

\* const dependencies = await scanDependencies(absolutePath)
ScanDependencies ==
    /\ pc = "start"
    /\ domain' = Outcome("dependencies", Returned(scanDependencies(manifest, tools)))
    /\ pc' = "done"
    /\ ScanUnchanged

\* const sqlInjection = await scanSqlInjections(absolutePath)
ScanSqlInjections ==
    /\ pc = "start"
    /\ domain' = Outcome("sqlInjection", Returned(scanSqlInjections(files)))
    /\ pc' = "done"
    /\ ScanUnchanged

\* const csrf = await scanCSRF(absolutePath)
ScanCSRF ==
    /\ pc = "start"
    /\ domain' = Outcome("csrf", Returned(scanCSRF(files, manifest)))
    /\ pc' = "done"
    /\ ScanUnchanged

\* const cookies = await scanCookies(absolutePath)
ScanCookies ==
    /\ pc = "start"
    /\ domain' = Outcome("cookies", Returned(scanCookies(files, manifest)))
    /\ pc' = "done"
    /\ ScanUnchanged

NextScans ==
    \/ ScanDependencies \/ ScanSecrets \/ ScanMiddlewares \/ ScanCORS \/ ScanRateLimit
    \/ ScanSqlInjections \/ ScanAuthentication \/ ScanInputValidation \/ ScanCSRF
    \/ ScanCookies
SpecScans == InitScans /\ [][NextScans]_vars

\* Which aggregator has run, and the value it returned.
Scanned(scan) ==
    /\ pc = "done"
    /\ IF scan = "cors" THEN cors # NoDomain
       ELSE IF scan = "rateLimit" THEN rateLimit # NoDomain /\ rateLimit.status # "threw"
       ELSE domain # NoDomain /\ domain.scan = scan /\ domain.status = "returned"
ScanValue == domain.out.value

\* The keys of a dependencies result of the usual shape.
DependencyKeys ==
    {"audit", "outdated", "unused", "licenses", "snyk", "bestPractices", "securityScore"}

\* C13: an empty project (no source file, no manifest) run through each of
\* the ten aggregators never throws and gives a result of the aggregator's
\* usual shape with every issue list empty and every count zero.
C13_EmptyProjectWellFormed ==
    (pc = "done" /\ files = <<>> /\ manifest = Null) =>
        /\ rateLimit = NoDomain \/ rateLimit.status # "threw"
        /\ domain = NoDomain \/ domain.status = "returned"
        /\ Scanned("dependencies") => DependencyKeys \subseteq DOMAIN ScanValue
        /\ Scanned("secrets") =>
              /\ ScanValue.secrets = <<>>
              /\ ScanValue.environmentVariables.missing = <<>>
        /\ Scanned("middlewares") =>
              /\ ScanValue.installed.count = 0 /\ ScanValue.used.count = 0
              /\ ScanValue.configurationIssues = <<>>
        /\ Scanned("cors") => cors.issues = <<>>
        /\ Scanned("rateLimit") => rateLimit.detected.count = 0 /\ rateLimit.issues.count = 0
        /\ Scanned("sqlInjection") =>
              ScanValue.sql = <<>> /\ ScanValue.noSql = <<>> /\ ScanValue.total = 0
        /\ Scanned("auth") =>
              ScanValue.auth = <<>> /\ ScanValue.authorization = <<>> /\ ScanValue.total = 0
        /\ Scanned("inputValidation") =>
              /\ ScanValue.validation = <<>> /\ ScanValue.xss = <<>>
              /\ ScanValue.typeErrors = <<>> /\ ScanValue.total = 0
        /\ Scanned("csrf") => ScanValue.issues = <<>> /\ ScanValue.total = 0
        /\ Scanned("cookies") =>
              ScanValue.cookies = <<>> /\ ScanValue.management = <<>> /\ ScanValue.total = 0

\* The place of a file in the order the glob found the files.
C15_FileIndex(path) == CHOOSE k \in 1..Len(files) : files[k].path = path

\* Every issue of the list comes from a rule registered no later than the
\* rules of the issues after it, and within one rule from a file found
\* earlier; key is the field that names the rule.
C15_InOrder(list, rules, key) ==
    \A a, b \in 1..Len(list) :
        a < b =>
          \E ka, kb \in 1..Len(rules) :
              /\ rules[ka][key] = list[a][key]
              /\ rules[kb][key] = list[b][key]
              /\ \/ ka < kb
                 \/ ka = kb /\ C15_FileIndex(list[a].file) < C15_FileIndex(list[b].file)

\* C15: every issue list an aggregator builds is in rule registration
\* order and, within one rule, in the order the matcher found the files.
C15_IssuesInRegistrationOrder ==
    /\ Scanned("cors") => C15_InOrder(cors.issues, corsPatterns, "name")
    /\ Scanned("rateLimit") =>
          C15_InOrder(rateLimit.issues.configurationProblems, rateLimitConfigPatterns, "name")
    /\ Scanned("middlewares") =>
          C15_InOrder(ScanValue.configurationIssues, middlewareConfigPatterns, "name")
    /\ Scanned("secrets") => C15_InOrder(ScanValue.secrets, secretPatterns, "type")
    /\ Scanned("auth") =>
          /\ C15_InOrder(ScanValue.auth, authPatterns, "type")
          /\ C15_InOrder(ScanValue.authorization, authorizationPatterns, "type")
    /\ Scanned("inputValidation") =>
          /\ C15_InOrder(ScanValue.validation, inputValidationPatterns, "type")
          /\ C15_InOrder(ScanValue.xss, xssPatterns, "type")
          /\ C15_InOrder(ScanValue.typeErrors, typeValidationPatterns, "type")
    /\ Scanned("sqlInjection") =>
          /\ C15_InOrder(ScanValue.sql, sqlInjectionPatterns, "type")
          /\ C15_InOrder(ScanValue.noSql, noSqlInjectionPatterns, "type")
    /\ Scanned("csrf") => C15_InOrder(ScanValue.issues, csrfPatterns, "type")
    /\ Scanned("cookies") =>
          /\ C15_InOrder(ScanValue.cookies, cookiePatterns, "type")
          /\ C15_InOrder(ScanValue.management, cookieManagementPatterns, "type")

\* scanAuthentication found issues of several rules in each of two files.
C15_Witness ==
    /\ Scanned("auth")
    /\ Len(ScanValue.auth) >= 4
    /\ \E a, b \in 1..Len(ScanValue.auth) :
          /\ ScanValue.auth[a].file # ScanValue.auth[b].file
          /\ ScanValue.auth[a].type # ScanValue.auth[b].type

(***************************************************************************)
(* scanDependencies with each external tool working, failing or absent.    *)
(***************************************************************************)
ToolOutcomes ==
    [audit : {Null, EveryToolWorks.audit},
     outdated : {Null, EveryToolWorks.outdated},
     unused : {Null, EveryToolWorks.unused},
     licenses : {Null, EveryToolWorks.licenses},
     snyk : {"absent", "failed", "ok"}]

InitDependencies ==
    /\ files = <<>>
    /\ manifest \in ScanManifests
    /\ tools \in ToolOutcomes
    /\ ScanIdle
    /\ pc = "start"
    /\ domain = NoDomain /\ argv = Null /\ exit = Null

NextDependencies == ScanDependencies
SpecDependencies == InitDependencies /\ [][NextDependencies]_vars

\* The sub-analyses that run an external tool, by the key of their section.
ToolSections == {"audit", "outdated", "unused", "licenses", "snyk"}
ToolFailed(t, name) == IF name = "snyk" THEN t.snyk # "ok" ELSE IsNull(t[name])

\* C19: when an external tool fails or is absent, scanDependencies returns,
\* the section of the failing sub-analysis is an object with success false,
\* an error and details, and every other section and the securityScore are
\* present.
C19_FailedToolReported ==
    (pc = "done" /\ ~IsNull(manifest)) =>
        /\ Scanned("dependencies")
        /\ DependencyKeys \subseteq DOMAIN ScanValue
        /\ \A name \in ToolSections :
              ToolFailed(tools, name) =>
                  /\ {"success", "error", "details"} \subseteq DOMAIN ScanValue[name]
                  /\ ScanValue[name].success = FALSE

(***************************************************************************)
(* main: the argument check, the ten scans awaited one after the other,    *)
(* the summary, the results object and generateReport, all inside one try  *)
(* whose catch ends the process with status 1.                             *)
(*                                                                         *)
(* pc is "start", the name of the scan main is waiting for, "report" while *)
(* generateReport runs, "exited" once the process has ended.  domain holds *)
(* the values awaited so far, results the object given to generateReport.  *)
(***************************************************************************)
ScanOrder == <<"dependencies", "secrets", "middlewares", "cors", "rateLimit",
               "sqlInjection", "auth", "inputValidation", "csrf", "cookies">>

\* What the call of one aggregator ends with.
ScanOutcome(name) ==
    CASE name = "dependencies" -> Returned(scanDependencies(manifest, tools))
      [] name = "secrets" -> Returned(scanSecrets(files))
      [] name = "middlewares" -> scanMiddlewares(files, manifest)
      [] name = "cors" -> Returned(scanCORS(files, manifest))
      [] name = "rateLimit" ->
            IF RouteCheckThrows(files) THEN Threw("SyntaxError")
            ELSE Returned(scanRateLimit(files, manifest))
      [] name = "sqlInjection" -> Returned(scanSqlInjections(files))
      [] name = "auth" -> Returned(scanAuthentication(files, manifest))
      [] name = "inputValidation" -> Returned(scanInputValidation(files, manifest))
      [] name = "csrf" -> Returned(scanCSRF(files, manifest))
      [] name = "cookies" -> Returned(scanCookies(files, manifest))

\* Object.values(dependencies.audit.vulnerabilities || {}).reduce((a, b) => a + b, 0)
AuditTotal(dependencies) ==
    IF "audit" \in DOMAIN dependencies /\ "vulnerabilities" \in DOMAIN dependencies.audit
      THEN dependencies.audit.vulnerabilities.critical
           + dependencies.audit.vulnerabilities.high
           + dependencies.audit.vulnerabilities.moderate
           + dependencies.audit.vulnerabilities.low
      ELSE 0

\* A count that adds the CORS issues and the rate-limit issues.
vulnCountEveryDomain(v) ==
    AuditTotal(v.dependencies) + Len(v.secrets.secrets) + v.middlewares.missing.count
    + v.sqlInjection.total + v.auth.total + v.inputValidation.total + v.csrf.total
    + v.cookies.total + Len(v.cors.issues) + v.rateLimit.issues.count

vulnCount(v) ==
    AuditTotal(v.dependencies) + Len(v.secrets.secrets) + v.middlewares.missing.count
    + v.sqlInjection.total + v.auth.total + v.inputValidation.total + v.csrf.total
    + v.cookies.total

\* hrend[0] + hrend[1] / 1e9, toFixed(2)
ExecutionTimes == {"0.01", "12.34"}

\* A results object built without its stats.
ResultsWithoutStats(v, executionTime) ==
    [dependencies |-> v.dependencies, secrets |-> v.secrets, middlewares |-> v.middlewares,
     cors |-> v.cors, rateLimit |-> v.rateLimit, sqlInjection |-> v.sqlInjection,
     auth |-> v.auth, inputValidation |-> v.inputValidation, csrf |-> v.csrf,
     cookies |-> v.cookies]

\* The object handed to generateReport.
ResultsObject(v, executionTime) ==
    [dependencies |-> v.dependencies, secrets |-> v.secrets, middlewares |-> v.middlewares,
     cors |-> v.cors, rateLimit |-> v.rateLimit, sqlInjection |-> v.sqlInjection,
     auth |-> v.auth, inputValidation |-> v.inputValidation, csrf |-> v.csrf,
     cookies |-> v.cookies,
     stats |-> [executionTime |-> executionTime, totalIssues |-> vulnCount(v)]]

MainLines == {
    SessionOpenLine,
    RouteLine("post", <<"/", "login", "/", "(">>, <<>>),
    RouteLine("post", LoginPath, <<>>),
    <<"jwt", ".", "sign", "(", "x", ",", " ", "'", "secret", "'", ")", ";">>}
MainManifests == {Null, Some({"express", "express-session"})}
NoValues == [status |-> "running"]

InitMain ==
    /\ files \in LineCorpora(MainLines, 1, MaxLines)
    /\ manifest \in MainManifests
    /\ tools \in {NoToolWorks, EveryToolWorks}
    /\ argv \in {Null, Some("project")}
    /\ ScanIdle
    /\ pc = "start"
    /\ domain = NoValues /\ exit = Null

MainUnchanged ==
    UNCHANGED <<files, manifest, rule, matches, score, counts, local, cors, rateLimit,
                tools, argv>>

\* From the banner to the first scan: process.exit(1) without a target directory.
Start ==
    /\ pc = "start"
    /\ IF IsNull(argv) THEN pc' = "exited" /\ exit' = Some(1)
       ELSE pc' = ScanOrder[1] /\ exit' = exit
    /\ UNCHANGED <<domain, results>>
    /\ MainUnchanged

\* main goes on with what scan k ended with: a thrown error lands in the
\* catch, a value is kept; after the last scan the summary and the results
\* object are built and generateReport is called.
Resume(k, out, executionTime) ==
    IF out.status = "threw"
      THEN pc' = "exited" /\ exit' = Some(1) /\ UNCHANGED <<domain, results>>
      ELSE /\ domain' = (ScanOrder[k] :> out.value) @@ domain
           /\ exit' = exit
           /\ IF k < Len(ScanOrder)
                THEN pc' = ScanOrder[k + 1] /\ results' = results
                ELSE pc' = "report" /\ results' = ResultsObject(domain', executionTime)

Await ==
    /\ \E k \in 1..Len(ScanOrder) :
          /\ pc = ScanOrder[k]
          /\ \E executionTime \in ExecutionTimes :
                Resume(k, ScanOutcome(ScanOrder[k]), executionTime)
    /\ MainUnchanged

\* generateReport resolves with the path of the report and main ends.
ReportGenerated ==
    /\ pc = "report"
    /\ pc' = "exited"
    /\ exit' = Some(0)
    /\ UNCHANGED <<domain, results>>
    /\ MainUnchanged

NextMain == Start \/ Await \/ ReportGenerated
SpecMain == InitMain /\ [][NextMain]_vars

ResultKeys == {"dependencies", "secrets", "middlewares", "cors", "rateLimit",
               "sqlInjection", "auth", "inputValidation", "csrf", "cookies", "stats"}

\* generateReport has been called: main waits for it or has ended after it.
ReportCalled == pc = "report" \/ (pc = "exited" /\ exit = Some(0))

\* C16: whenever generateReport is called, its argument has the ten domain
\* keys and stats, each domain key holds the object its scan returned, and
\* stats holds executionTime and totalIssues.
C16_EveryKeyPresent ==
    ReportCalled =>
        /\ DOMAIN results = ResultKeys
        /\ \A k \in 1..Len(ScanOrder) :
              /\ results[ScanOrder[k]] = domain[ScanOrder[k]]
              /\ DOMAIN results[ScanOrder[k]] # {}
        /\ DOMAIN results.stats = {"executionTime", "totalIssues"}
        /\ results.stats.executionTime \in ExecutionTimes
        /\ results.stats.totalIssues \in Nat

\* generateReport was called for a project in which no scan found anything.
C16_Witness ==
    /\ pc = "report"
    /\ files = <<>>
    /\ manifest = Null
    /\ results.stats.totalIssues = 0

\* C18: a scan that raises does not end the run: the process ends with a
\* failure status only when the project path argument is missing.
C18_OnlyMissingArgumentFails ==
    (pc = "exited" /\ exit = Some(1)) => IsNull(argv)

(***************************************************************************)
(* The state a RegExp object carries from one call to the next.  The rule  *)
(* tables are module-level arrays of RegExp literals, built once; the only *)
(* thing a scan can leave behind in them is the lastIndex of a RegExp,     *)
(* which String.prototype.match reads and writes for the g and y flags.    *)
(* rule is the RegExp object of one rule: its name and its lastIndex       *)
(* (0-based); matches holds the value of each call so far.                 *)
(***************************************************************************)
\* A rule table whose RegExp literals carry the sticky flag.
RuleFlagsSticky(name) == {"i", "y"}

\* The flags of the RegExp literals of the rule tables: i or none.
RuleFlags(name) == {"i"}

\* The match of a sticky RegExp: at lastIndex or not at all.
StickyMatch(s, last, runs) ==
    IF Len(runs) = 0 THEN [match |-> Null, lastIndex |-> 0]
    ELSE [match |-> Some([text |-> SubSeq(s, last + 1, runs[1].e - 1), g |-> runs[1].g]),
          lastIndex |-> runs[1].e - 1]

\* s.match(re) for a RegExp object with these flags and this lastIndex: the
\* match and the lastIndex the call leaves.  With g the search starts at 0
\* and lastIndex ends at 0 (match[0] is the first match); with y the match
\* is tried at lastIndex only; with neither lastIndex is not read or written.
RegExpMatch(s, re, flags, last) ==
    IF "g" \in flags THEN [match |-> StringMatch(s, re), lastIndex |-> 0]
    ELSE IF "y" \in flags
      THEN StickyMatch(s, last, IF last > Len(s) THEN <<>> ELSE Run(re, s, last + 1, NoCaps))
    ELSE [match |-> StringMatch(s, re), lastIndex |-> last]

\* The loop of findFilesWithPattern from file k on, for a RegExp object.
RECURSIVE FindFrom(_, _, _, _, _)
FindFrom(fs, k, re, flags, last) ==
    IF k > Len(fs) THEN [matches |-> <<>>, lastIndex |-> last]
    ELSE Only({Only({[matches |-> RecordIfMatched(fs[k], readFileContent(fs[k]), m.match)
                                    \o rest.matches,
                      lastIndex |-> rest.lastIndex]
                     : rest \in {FindFrom(fs, k + 1, re, flags, m.lastIndex)}})
               : m \in {RegExpMatch(readFileContent(fs[k]), re, flags, last)}})

\* findFilesWithPattern for the rule object: its matches and the lastIndex
\* the rule is left with.
FindWith(fs, p, flags, last) ==
    IF p.kind = "string" THEN [matches |-> findFilesWithPattern(fs, p), lastIndex |-> last]
    ELSE FindFrom(fs, 1, p.re, flags, last)

InitTwice ==
    /\ files \in Corpora(MatchAlphabet, 1, MaxLen)
    /\ manifest = Null
    /\ rule \in [name : PatternNames, lastIndex : {0}]
    /\ matches = <<>>
    /\ results = NoResults /\ score = 0 /\ counts = NoCounts /\ local = 0
    /\ cors = NoDomain /\ rateLimit = NoDomain
    /\ pc = "start"
    /\ RunIdle

\* One more call of the matcher with the same rule object on the same tree.
Remember(out) ==
    /\ matches' = Append(matches, out.matches)
    /\ rule' = [rule EXCEPT !.lastIndex = out.lastIndex]

FindAgain ==
    /\ pc \in {"start", "once"}
    /\ Remember(FindWith(files, PatternOf(rule.name), RuleFlags(rule.name), rule.lastIndex))
    /\ pc' = IF pc = "start" THEN "once" ELSE "done"
    /\ UNCHANGED <<files, manifest, results, score, counts, local, cors, rateLimit>>
    /\ RunUnchanged

NextTwice == FindAgain
SpecTwice == InitTwice /\ [][NextTwice]_vars

ReturnedScans == DOMAIN domain \ {"status"}

\* C21: with a project-path argument the ten scans start in ScanOrder, each
\* only after the previous ones returned, and a run that has ended has
\* called generateReport, once and after all ten returned; without the
\* argument no scan is started.
C21_ScansInOrderThenOneReport ==
    /\ IsNull(argv) => pc \in {"start", "exited"} /\ ReturnedScans = {}
    /\ \A k \in 1..Len(ScanOrder) :
          pc = ScanOrder[k] => ReturnedScans = {ScanOrder[j] : j \in 1..(k - 1)}
    /\ ReportCalled => ReturnedScans = {ScanOrder[j] : j \in 1..Len(ScanOrder)}
    /\ (~IsNull(argv) /\ pc = "exited") => exit = Some(0)

(***************************************************************************)
(* The score scanMiddlewares reports, against the lists it reports.        *)
(***************************************************************************)
\* C23: the securityScore of a scanMiddlewares result is 100 minus 15 for
\* each missing HIGH-priority middleware, minus 5 for each missing
\* MEDIUM-priority middleware, minus 10 for each configuration issue,
\* limited to 0..100; the missing LOW-priority middlewares and the installed
\* middlewares do not enter the score.
C23_MiddlewaresScoreFormula ==
    (pc = "done" /\ domain.scan = "middlewares" /\ domain.status = "returned") =>
        LET v == domain.out.value
            exact == 100 - 15 * v.missing.count - 5 * v.recommended.count
                         - 10 * Len(v.configurationIssues)
        IN  v.securityScore = IF exact < 0 THEN 0 ELSE IF exact > 100 THEN 100 ELSE exact

\* Every HIGH-priority middleware declared, four MEDIUM and the three LOW
\* ones missing, one configuration issue: the score is 100 - 20 - 10.
C23_Witness ==
    /\ pc = "done" /\ domain.scan = "middlewares" /\ domain.status = "returned"
    /\ manifest = HardenedManifest
    /\ Len(WithPriority(MiddlewaresWhere(manifest, FALSE), "LOW")) = 3
    /\ domain.out.value.installed.count = 8
    /\ domain.out.value.recommended.count = 4
    /\ Len(domain.out.value.configurationIssues) = 1
    /\ domain.out.value.securityScore = 70

(***************************************************************************)
(* The score scanRateLimit reports, against the lists it reports.          *)
(***************************************************************************)
C24_AtMost(n, cap) == IF n > cap THEN cap ELSE n
C24_Formula(detections, installed, issues, endpoints) ==
    IF detections = 0 THEN 0
    ELSE LET exact == 50 + C24_AtMost(5 * installed, 20) - C24_AtMost(10 * issues, 40)
                         - C24_AtMost(10 * endpoints, 30)
         IN  IF exact < 0 THEN 0 ELSE IF exact > 100 THEN 100 ELSE exact

\* C24: the securityScore of a scanRateLimit result is 0 when no
\* implementation was detected, otherwise 50, plus 5 for each installed
\* package up to 20, minus 10 for each configuration issue up to 40, minus 10
\* for each unprotected endpoint up to 30, limited to 0..100; the same holds
\* of the score computed for any counts up to the extreme ones (a fact about
\* the function, evaluated once, in the states of the empty project).
C24_RateLimitScoreFormula ==
    /\ (pc = "done" /\ rateLimit.status # "threw") =>
          rateLimit.securityScore =
            C24_Formula(rateLimit.detected.count, rateLimit.installed.count,
                        Len(rateLimit.issues.configurationProblems),
                        Len(rateLimit.issues.unprotectedEndpoints))
    /\ (pc = "start" /\ files = <<>>) =>
          \A d, i, c, u \in LocalCounts :
            rateLimitSecurityScore(d, i, c, u) = C24_Formula(d, i, c, u)

\* express-rate-limit declared and used, one unprotected endpoint and no
\* configuration issue: the score is 50 + 5 - 10.
C24_Witness ==
    /\ pc = "done" /\ rateLimit.status # "threw"
    /\ rateLimit.detected.count > 0
    /\ rateLimit.installed.count = 1
    /\ rateLimit.issues.configurationProblems = <<>>
    /\ Len(rateLimit.issues.unprotectedEndpoints) = 1
    /\ rateLimit.securityScore = 45

(***************************************************************************)
(* The score scanCORS reports, against the issues it reports.              *)
(***************************************************************************)
C25_Wildcards == CountWhere(cors.issues, "name", "CORS permissif avec wildcard")
C25_High == CountWhere(cors.issues, "severity", "HIGH")
C25_Medium == CountWhere(cors.issues, "severity", "MEDIUM")

\* C25: the securityScore of a scanCORS result is 0 when neither a cors(
\* call nor a manual CORS header was detected, otherwise 50, plus 25 when
\* the result has no wildcard-origin issue, plus 15 when it has no HIGH
\* issue, plus 10 when it has no MEDIUM issue or 5 when it has exactly one.
C25_CorsScoreFormula ==
    pc = "done" =>
        cors.securityScore =
            IF ~cors.detected THEN 0
            ELSE 50 + (IF C25_Wildcards = 0 THEN 25 ELSE 0)
                    + (IF C25_High = 0 THEN 15 ELSE 0)
                    + (IF C25_Medium = 0 THEN 10 ELSE IF C25_Medium = 1 THEN 5 ELSE 0)

\* cors( is called with credentials and with permissive methods, without a
\* wildcard origin: two MEDIUM issues, and the score is 50 + 25 + 15.
C25_Witness ==
    /\ pc = "done"
    /\ cors.detected
    /\ C25_Wildcards = 0 /\ C25_High = 0 /\ C25_Medium = 2
    /\ cors.securityScore = 90

\* C28: the securityScore of a scanCORS result is one of 0, 50, 55, 60, 90,
\* 95, 100; the result has a wildcard-origin issue exactly when it has a
\* HIGH issue, so the 25 and the 15 are awarded together; with the status
\* CORS restreint the score is 90 or more, with a wildcard-origin issue it
\* is 60 or less.
C28_CorsScoreValues ==
    pc = "done" =>
        /\ cors.securityScore \in {0, 50, 55, 60, 90, 95, 100}
        /\ (C25_Wildcards = 0) <=> (C25_High = 0)
        /\ cors.status = "CORS restreint" => cors.securityScore >= 90
        /\ C25_Wildcards > 0 => cors.securityScore <= 60

\* A restricted cors( call with credentials: one MEDIUM issue, score 95.
C28_Witness ==
    /\ pc = "done"
    /\ cors.status = "CORS restreint"
    /\ C25_Medium = 1
    /\ cors.securityScore = 95

(***************************************************************************)
(* The matcher over a tree in which some files cannot be read, for every   *)
(* rule of the domain registries.                                          *)
(***************************************************************************)
\* Every rule of every registry, in the order of the domains.
RegistryRules ==
    corsPatterns \o rateLimitPatterns \o rateLimitConfigPatterns \o authPatterns
    \o authorizationPatterns \o inputValidationPatterns \o xssPatterns
    \o typeValidationPatterns \o middlewarePatterns \o middlewareConfigPatterns
    \o secretPatterns \o sqlInjectionPatterns \o noSqlInjectionPatterns \o cookiePatterns
    \o cookieManagementPatterns \o csrfPatterns

JwtSignLine == <<"jwt", ".", "sign", "(", "x", ",", " ", "'", "secret", "'", ")", ";">>
UnreadableLines == {WildcardLine, JwtSignLine, RouteLine("post", LoginPath, <<>>)}

\* The tree fs with any of its files failing fs.readFileSync.
SomeUnreadable(fs) ==
    {[k \in 1..Len(fs) |-> [fs[k] EXCEPT !.readable = r[k]]] \o <<>> :
        r \in [1..Len(fs) -> BOOLEAN]}

\* The files of the tree that can be read, in the order of the tree.
ReadableFiles(fs) == Flat([k \in 1..Len(fs) |-> IF fs[k].readable THEN <<fs[k]>> ELSE <<>>])

InitUnreadable ==
    /\ \E fs \in LineCorpora(UnreadableLines, 1, MaxLines) : files \in SomeUnreadable(fs)
    /\ manifest = Null
    /\ rule \in 1..Len(RegistryRules)
    /\ matches = <<>> /\ results = NoResults /\ score = 0
    /\ counts = NoCounts /\ local = 0 /\ cors = NoDomain /\ rateLimit = NoDomain
    /\ pc = "start"
    /\ RunIdle

\* const results = findFilesWithPattern(projectPath, filePattern, pattern.pattern)
FindWithRule ==
    /\ pc = "start"
    /\ matches' = findFilesWithPattern(files, RegistryRules[rule].pattern)
    /\ pc' = "done"
    /\ UNCHANGED <<files, manifest, rule, results, score, counts, local, cors, rateLimit>>
    /\ RunUnchanged

NextUnreadable == FindWithRule
SpecUnreadable == InitUnreadable /\ [][NextUnreadable]_vars

\* C22: for every rule of every registry, findFilesWithPattern returns no
\* record for a file that cannot be read, and returns for the other files
\* the records it returns when the unreadable files are not in the tree.
C22_UnreadableFileSkipped ==
    pc = "done" =>
        /\ \A k \in 1..Len(matches) :
              \E j \in 1..Len(files) : files[j].path = matches[k].file /\ files[j].readable
        /\ matches = findFilesWithPattern(ReadableFiles(files), RegistryRules[rule].pattern)

\* The first file cannot be read and holds a line the rule matches; the
\* second file is read and gives the only record.
C22_Witness ==
    /\ pc = "done"
    /\ Len(files) = 2
    /\ ~files[1].readable /\ files[2].readable
    /\ ~IsNull(StringMatch(files[1].content, RegistryRules[rule].pattern.re))
    /\ Len(matches) = 1
    /\ matches[1].file = files[2].path

(***************************************************************************)
(* Records without line and context in the hands of the aggregators.       *)
(***************************************************************************)
\* The manifest declares express-session and the first session( record the
\* matcher returns has neither line nor context.
C26_SessionAcrossLines ==
    /\ Declares(manifest, "express-session")
    /\ Len(findFilesWithPattern(files, SessionPattern)) > 0
    /\ IsNull(findFilesWithPattern(files, SessionPattern)[1].context)

\* C26: the aggregators return a result, whatever records the matcher hands
\* them, those without line and context included; scanMiddlewares, with
\* express-session declared and a session( call that spans lines, returns a
\* result that holds a sessionAnalysis.
C26_NullContextNeverRaises ==
    pc = "done" =>
        /\ domain.status = "returned"
        /\ (domain.scan = "middlewares" /\ C26_SessionAcrossLines) =>
              ~IsNull(domain.out.value.sessionAnalysis)

(***************************************************************************)
(* The excluded directories and the files scanSecrets reports.             *)
(***************************************************************************)
\* Is the file inside a directory of excludedDirs, at any depth?
C27_InsideExcluded(path) ==
    \E k \in 1..(Len(Segments(path)) - 1) : Segments(path)[k] \in excludedDirs

\* C27: no entry of the secrets list of a scanSecrets result names a file
\* inside node_modules, .git, dist, build or public, at any depth, directly
\* under the project root included.
C27_NoSecretInExcludedDir ==
    (pc = "done" /\ domain.status = "returned") =>
        \A k \in 1..Len(domain.out.value.secrets) :
            ~C27_InsideExcluded(domain.out.value.secrets[k].file)

(***************************************************************************)
(* The totals of the run: main's vulnCount, the total of the report's      *)
(* summary, and what the composite scorer reads of the same results.       *)
(***************************************************************************)
\* generateReport's issues object, summed: Object.values(issues).reduce(...)
SummaryTotal(res) ==
    (IF "audit" \in DOMAIN res.dependencies
          /\ "vulnerabilities" \in DOMAIN res.dependencies.audit
       THEN res.dependencies.audit.vulnerabilities.critical
            + res.dependencies.audit.vulnerabilities.high
            + res.dependencies.audit.vulnerabilities.moderate
            + res.dependencies.audit.vulnerabilities.low
       ELSE 0)
    + Len(res.secrets.secrets) + res.middlewares.missing.count + res.auth.total
    + res.sqlInjection.total + res.inputValidation.total + res.csrf.total
    + res.cookies.total

\* What calculateSecurityScore reads of a results object.
ScoreInputs(res) ==
    [vuln |-> IF "audit" \in DOMAIN res.dependencies
                   /\ "vulnerabilities" \in DOMAIN res.dependencies.audit
                THEN Some(res.dependencies.audit.vulnerabilities) ELSE Null,
     secrets |-> Some([critical |-> CountWhere(res.secrets.secrets, "severity", "CRITICAL"),
                       high |-> CountWhere(res.secrets.secrets, "severity", "HIGH")]),
     auth |-> Some(res.auth.total),
     inputValidation |-> Some(res.inputValidation.total),
     sqlInjection |-> Some(res.sqlInjection.total),
     csrf |-> Some(res.csrf.total),
     corsHigh |-> Some(CountWhere(res.cors.issues, "severity", "HIGH")),
     rateLimit |-> Some(res.rateLimit.issues.count),
     middlewares |-> Some(res.middlewares.missing.count)]

\* The tree that holds one file of one line.
OneLineTree(line) == <<[path |-> "a.js", content |-> line, readable |-> TRUE]>>

\* The CORS and rate-limit results of other trees under the same manifest.
C29_OtherCors == {scanCORS(fs, manifest) : fs \in {<<>>, OneLineTree(WildcardLine)}}
C29_OtherRateLimit ==
    {scanRateLimit(fs, manifest) :
        fs \in {<<>>, OneLineTree(RouteLine("post", LoginPath, <<>>)),
                OneLineTree(RateLimitCall("max", <<"5", "0", "0">>, <<>>))}}

\* The values of the ten scans with other CORS and rate-limit results.
C29_With(c, r) == ("cors" :> c) @@ ("rateLimit" :> r) @@ domain

\* C29: when the report is generated, stats.totalIssues is the sum of the
\* dependency vulnerability counts, the number of secrets, the count of
\* missing middlewares and the totals of sqlInjection, auth, inputValidation,
\* csrf and cookies, and so is the total of the report's summary; with any
\* other CORS and rate-limit results, whatever the number of their issues,
\* both totals are the same.
C29_TotalIssuesIgnoresCorsAndRateLimit ==
    ReportCalled =>
        /\ results.stats.totalIssues =
              AuditTotal(results.dependencies) + Len(results.secrets.secrets)
              + results.middlewares.missing.count + results.sqlInjection.total
              + results.auth.total + results.inputValidation.total + results.csrf.total
              + results.cookies.total
        /\ SummaryTotal(results) = results.stats.totalIssues
        /\ \A c \in C29_OtherCors : \A r \in C29_OtherRateLimit :
              /\ vulnCount(C29_With(c, r)) = results.stats.totalIssues
              /\ SummaryTotal(ResultsObject(C29_With(c, r), results.stats.executionTime))
                   = results.stats.totalIssues

\* The report is generated with issues counted, and a CORS result with a
\* HIGH issue in place of the run's would change the composite score.
C29_Witness ==
    /\ ReportCalled
    /\ results.stats.totalIssues > 0
    /\ \E c \in C29_OtherCors :
          /\ Len(c.issues) # Len(results.cors.issues)
          /\ calculateSecurityScore(ScoreInputs(ResultsObject(C29_With(c, results.rateLimit),
                                                              results.stats.executionTime)))
               # calculateSecurityScore(ScoreInputs(results))

(***************************************************************************)
(* The ten scans in any order.  Every aggregator body is synchronous       *)
(* (glob.sync, readFileSync, execSync), so a scan runs to completion       *)
(* before another one starts and an interleaving is an order of the calls. *)
(***************************************************************************)
\* A call that hands back what the secrets scan left behind.
ScanAfterSharing(name, held) ==
    IF name = "dependencies" /\ "secrets" \in DOMAIN held THEN held["secrets"]
    ELSE ScanOutcome(name)

\* await scanX(absolutePath), called when the scans of held have ended: the
\* call gets the project path and nothing of what the earlier scans ended with.
ScanAfter(name, held) == ScanOutcome(name)

AnyOrderTrees ==
    {OneLineTree(RouteLine("post", LoginPath, <<>>)),
     OneLineTree(RouteLine("post", <<"/", "login", "/", "(">>, <<>>)),
     OneLineTree(JwtSignLine)}

InitAnyOrder ==
    /\ files \in AnyOrderTrees
    /\ manifest \in MainManifests
    /\ tools \in {NoToolWorks, EveryToolWorks}
    /\ argv = Some("project")
    /\ rule = NoRule /\ matches = <<>> /\ results = NoResults /\ score = 0
    /\ counts = NoCounts /\ local = 0 /\ cors = NoDomain /\ rateLimit = NoDomain
    /\ pc = "scanning"
    /\ domain = NoValues /\ exit = Null

\* One scan that has not run yet runs and ends.
ScanNext ==
    /\ pc = "scanning"
    /\ \E k \in 1..Len(ScanOrder) :
          /\ ScanOrder[k] \notin DOMAIN domain
          /\ domain' = (ScanOrder[k] :> ScanAfter(ScanOrder[k], domain)) @@ domain
    /\ pc' = IF ReturnedScans' = {ScanOrder[j] : j \in 1..Len(ScanOrder)}
               THEN "done" ELSE "scanning"
    /\ UNCHANGED results
    /\ MainUnchanged /\ exit' = exit

NextAnyOrder == ScanNext
SpecAnyOrder == InitAnyOrder /\ [][NextAnyOrder]_vars

\* What the scans end with in the order of main, each called after the
\* earlier ones returned; a scan that throws ends the sequence.
RECURSIVE SequentialFrom(_, _)
SequentialOnto(k, held, out) ==
    IF out.status = "threw" THEN held
    ELSE SequentialFrom(k + 1, (ScanOrder[k] :> out) @@ held)
SequentialFrom(k, held) ==
    IF k > Len(ScanOrder) THEN held
    ELSE SequentialOnto(k, held, ScanAfter(ScanOrder[k], held))

====
